---- MODULE Spec2Model ----
(***************************************************************************)
(* vptstools: conversion of ODIM vertical-profile containers to VPTS CSV   *)
(* rows (vpts.py, vpts_csv.py, odimh5.py), the S3 inventory handling       *)
(* (s3.py) and the daily/monthly aggregation command (bin/vph5_to_vpts.py).*)
(*                                                                         *)
(* Three specifications share the module:                                  *)
(*   Spec          vp() / vpts() and the helpers they are built from       *)
(*   SpecManifest  handle_manifest() reading an inventory chunk by chunk   *)
(*   SpecCli       the cli() run of bin/vph5_to_vpts.py against a store    *)
(***************************************************************************)
EXTENDS Integers, Sequences, FiniteSets, TLC

VARIABLES
    call,        \* the vp()/vpts()/helper call in progress and its arguments
    tasks,       \* one record per vp() execution (the call itself or a pool task)
    completed,   \* indices of tasks in the order in which they finished
    result,      \* what the call returned or raised
    manifest,    \* handle_manifest: the sub-listings of the inventory
    lookback,    \* handle_manifest: modified_days_ago, a number of days
    now,         \* the clock pd.Timestamp.now() reads, in half days
    mpc,         \* handle_manifest: position of the run
    cursor,      \* handle_manifest: index of the chunk the reader yields next
    readings,    \* handle_manifest: what Timestamp.now() returned for each chunk
    df_coverage, \* handle_manifest: per-chunk counts collected so far
    df_last_n_days, \* handle_manifest: per-chunk recently modified rows
    mresult,     \* handle_manifest: returned tables or raised exception
    store,       \* cli: keys of the hdf5 objects in the bucket
    daily,       \* cli: daily vpts objects in the bucket, path -> content
    monthly,     \* cli: monthly vpts objects in the bucket, path -> content
    cpc,         \* cli: position of the run
    days,        \* cli: days_to_create_vpts["directory"]
    dayidx,      \* cli: index of the day group being handled
    listed,      \* cli: odim5_files of the current day group
    fetched,     \* cli: h5_file_local_paths of the current day group
    months,      \* cli: months_to_create_vpts["directory"]
    cexc,        \* cli: exception that ended the run, or "none"
    coverage,    \* cli: the coverage.csv object in the bucket
    cpus,        \* cli: multiprocessing.cpu_count() of the machine
    removed,     \* cli: objects the origin removed during the run
    earlier      \* cli: what the run before this one wrote and saw removed

convVars == <<call, tasks, completed, result>>
manVars  == <<manifest, lookback, now, mpc, cursor, readings, df_coverage,
              df_last_n_days, mresult>>
cliVars  == <<store, daily, monthly, cpc, days, dayidx, listed, fetched, months, cexc,
              coverage, cpus, removed, earlier>>
vars     == <<convVars, manVars, cliVars>>

----------------------------------------------------------------------------
(* Bounds of the model *)

MaxFiles == 2        \* files handed to one vpts() call
MaxCpu == 3          \* multiprocessing.cpu_count() ranges over 1..MaxCpu
MaxSourceLen == 3    \* characters in a source_file handed to check_source_file
MaxRaw == 3          \* raw stored samples range over 0..MaxRaw

----------------------------------------------------------------------------
(* Python values: numbers and strings live in the same lists *)

Num(n) == [t |-> "num", v |-> n]
Str(s) == [t |-> "str", v |-> s]

\* Python ==  between a list element and a number read from the attributes
py_eq(x, n) == x.t = "num" /\ x.v = n

\* Python str(): in a DataFrame built with dtype=str every cell is a string
py_str(x) == IF x.t = "num" THEN ToString(x.v) ELSE x.v

Ok(v) == [ok |-> TRUE, val |-> v]
Raise(e) == [ok |-> FALSE, exc |-> e]

----------------------------------------------------------------------------
(* Strings that the program inspects character by character are sequences *)
(* of one-character strings; ord gives Python's code points.               *)

ord(c) ==
    CASE c = "\n" -> 10 [] c = "." -> 46 [] c = "/" -> 47 [] c = "0" -> 48
      [] c = "1" -> 49 [] c = "2" -> 50 [] c = "3" -> 51 [] c = "4" -> 52
      [] c = "5" -> 53 [] c = "6" -> 54 [] c = "7" -> 55 [] c = "8" -> 56
      [] c = "9" -> 57 [] c = ":" -> 58 [] c = "a" -> 97 [] c = "b" -> 98
      [] c = "h" -> 104 [] c = "~" -> 126

\* Python's < on str: lexicographic by code point, a proper prefix is smaller
RECURSIVE str_lt(_, _)
str_lt(a, b) ==
    IF b = <<>> THEN FALSE
    ELSE IF a = <<>> THEN TRUE
    ELSE IF ord(Head(a)) # ord(Head(b)) THEN ord(Head(a)) < ord(Head(b))
    ELSE str_lt(Tail(a), Tail(b))

----------------------------------------------------------------------------
(* Whole-word strings (radar codes, ISO timestamps) are compared by their  *)
(* position in Lexicon, which lists them in code-point order.              *)

Lexicon == << "2022-11-11T23:30:00Z", "2022-11-11T23:35:00Z", "bejab", "bewid" >>

text_rank(s) == CHOOSE i \in 1..Len(Lexicon) : Lexicon[i] = s
text_lt(a, b) == text_rank(a) < text_rank(b)

----------------------------------------------------------------------------
(* odimh5.py: the container and its reader *)

Quantities == {"HGHT", "u", "v", "w", "ff", "dd", "sd_vvp", "gap", "eta", "dens",
               "dbz", "DBZH", "n", "n_dbz", "n_all", "n_dbz_all"}

\* what.date + what.time parsed with "%Y%m%d%H%M%S"
root_datetime(what) ==
    CASE what.date = "20221111" /\ what.time = "233000" -> <<2022, 11, 11, 23, 30, 0>>
      [] what.date = "20221111" /\ what.time = "233500" -> <<2022, 11, 11, 23, 35, 0>>

\* what.source "NOD:bejab,..." split on "," and ":"
root_source(what) == what.source

root_object_str(what) == what.object

InvalidSourceODIM == "InvalidSourceODIM"

\* odimh5.check_vp_odim; vpts.py and vph5.py hold copies of it
check_vp_odim(c) ==
    IF ~({"what", "how", "where"} \subseteq c.keys) THEN Raise(InvalidSourceODIM)
    ELSE IF root_object_str(c.what) # "VP" THEN Raise(InvalidSourceODIM)
    ELSE Ok("None")

----------------------------------------------------------------------------
(* vpts.py: module constants and helpers *)

NODATA == ""
UNDETECT == "NaN"

\* numpy astype(variable_dtype) of the scaled array
astype(v, dtype) == IF dtype = "uint8" THEN v % 256 ELSE v

\* vpts._odim_get_variables: scale, cast, then replace the sentinel codes
odim_get_variables(d) ==
    LET values == [i \in 1..Len(d.data) |->
                     Num(astype(d.data[i] * d.gain + d.offset, d.dtype))]
        v1 == [i \in 1..Len(values) |->
                 IF py_eq(values[i], d.nodata) THEN Str(NODATA) ELSE values[i]]
    IN  [i \in 1..Len(v1) |->
           IF py_eq(v1[i], d.undetect) THEN Str(UNDETECT) ELSE v1[i]]

\* vpts.datetime_to_proper8601: strftime('%Y-%m-%dT%H:%M:%SZ')
datetime_to_proper8601(ts) ==
    CASE ts = <<2022, 11, 11, 23, 30, 0>> -> "2022-11-11T23:30:00Z"
      [] ts = <<2022, 11, 11, 23, 35, 0>> -> "2022-11-11T23:35:00Z"

\* Python  value in nodata_values
py_in(value, nodata_values) ==
    \E i \in 1..Len(nodata_values) :
        /\ nodata_values[i].t = value.t
        /\ nodata_values[i].v = value.v

\* the integers whose decimal representation the model can parse back
IntLiterals == (-1..20) \cup {200, 1000}

\* Python int(): a number is kept, a string is parsed or raises ValueError
py_int(value) ==
    IF value.t = "num" THEN Ok(value)
    ELSE IF \E n \in IntLiterals : ToString(n) = value.v
         THEN Ok(Num(CHOOSE n \in IntLiterals : ToString(n) = value.v))
         ELSE Raise("ValueError")

\* an int_to_nodata that knows "NULL" only
int_to_nodata_null_only(value, nodata_values, nodata) ==
    IF value = Str("NULL") THEN Ok(Str(nodata)) ELSE py_int(value)

\* vpts.int_to_nodata (no type checks)
int_to_nodata(value, nodata_values, nodata) ==
    IF py_in(value, nodata_values) THEN Ok(Str(nodata)) ELSE py_int(value)

\* vpts_csv.int_to_nodata (str only)
csv_int_to_nodata(value, nodata_values, nodata) ==
    IF value.t # "str" THEN Raise("TypeError")
    ELSE IF \E i \in 1..Len(nodata_values) : nodata_values[i].t # "str"
         THEN Raise("TypeError")
    ELSE IF py_in(value, nodata_values) THEN Ok(Str(nodata))
    ELSE py_int(value)

\* a conversion that hands on what is neither 1 nor 0
number_to_bool_str_lenient(values) ==
    Ok([i \in 1..Len(values) |->
          IF py_eq(values[i], 1) THEN Str("TRUE")
          ELSE IF py_eq(values[i], 0) THEN Str("FALSE")
          ELSE values[i]])

\* number_to_bool_str: to_bool = {1: "TRUE", 0: "FALSE"}, KeyError otherwise
number_to_bool_str(values) ==
    IF \E i \in 1..Len(values) : ~(py_eq(values[i], 1) \/ py_eq(values[i], 0))
    THEN Raise("KeyError")
    ELSE Ok([i \in 1..Len(values) |-> Str(IF py_eq(values[i], 1) THEN "TRUE" ELSE "FALSE")])

\* `$` of Python's re: at the end, or just before a newline that ends the string
re_dollar(s, k) == k = Len(s) \/ (k = Len(s) - 1 /\ s[Len(s)] = "\n")

\* a pattern without the (?!\.{2}) lookahead
source_file_regex_no_lookahead(s) ==
    /\ s # <<>>
    /\ s[1] \notin {".", "/", "~"}
    /\ \A i \in 1..(Len(s) - 1) : s[i] # "\n"

\* re.match of VptsCsvV1.source_file_regex  ^(?=^[^.\/~])(^((?!\.{2}).)*$).*$
\* `.` matches every character but a newline
source_file_regex_V1(s) ==
    /\ s # <<>>
    /\ s[1] \notin {".", "/", "~"}
    /\ \E k \in 0..Len(s) :
          /\ \A i \in 1..k :
                /\ ~(s[i] = "." /\ i + 1 <= Len(s) /\ s[i + 1] = ".")
                /\ s[i] # "\n"
          /\ re_dollar(s, k)
          /\ \E m \in k..Len(s) :
                /\ \A i \in (k + 1)..m : s[i] # "\n"
                /\ re_dollar(s, m)

\* check_source_file (vpts.py and vpts_csv.py hold the same code)
check_source_file(source_file, regex) ==
    IF regex = "V1" /\ source_file_regex_V1(source_file)
    THEN Ok(source_file)
    ELSE Raise("ValueError")

----------------------------------------------------------------------------
(* vpts.py: BirdProfile *)

VariableNames == Quantities \ {"HGHT"}

\* a constructor that applies the V1 path rule to the source_file
BirdProfile_path_checked(fields, source_file) ==
    IF ~source_file.str THEN Raise("TypeError")
    ELSE IF ~check_source_file(source_file.v, "V1").ok THEN Raise("ValueError")
    ELSE Ok([fields EXCEPT !.source_file = source_file.v])

\* BirdProfile(..., source_file) with __post_init__: the fields are stored as
\* given, a source_file that is no str raises TypeError
BirdProfile(fields, source_file) ==
    IF ~source_file.str THEN Raise("TypeError")
    ELSE Ok([fields EXCEPT !.source_file = source_file.v])

\* from_odim without the fall-back to the name of the file
from_odim_no_fallback(c, source_file) ==
    IF "dataset1" \notin c.keys THEN Raise("KeyError")
    ELSE IF "HGHT" \notin DOMAIN c.ds THEN Raise("KeyError")
    ELSE IF ~({"what", "where", "how"} \subseteq c.keys) THEN Raise("KeyError")
    ELSE Ok([identifiers |-> root_source(c.what),
             datetime |-> root_datetime(c.what),
             what |-> c.what, where |-> c.where, how |-> c.how,
             levels |-> [i \in 1..Len(c.ds["HGHT"].data) |->
                           odim_get_variables(c.ds["HGHT"])[i].v],
             variables |-> [q \in (DOMAIN c.ds) \ {"HGHT"} |->
                              odim_get_variables(c.ds[q])],
             source_file |-> source_file])

\* BirdProfile.from_odim, given the container the reader has open
from_odim(c, source_file) ==
    IF "dataset1" \notin c.keys THEN Raise("KeyError")
    ELSE IF "HGHT" \notin DOMAIN c.ds THEN Raise("KeyError")
    ELSE
      LET height_values == odim_get_variables(c.ds["HGHT"])
          variables == [q \in (DOMAIN c.ds) \ {"HGHT"} |-> odim_get_variables(c.ds[q])]
          sf == IF source_file = <<>> THEN c.file_name ELSE source_file
      IN  IF ~({"what", "where", "how"} \subseteq c.keys) THEN Raise("KeyError")
          ELSE IF \E i \in 1..Len(height_values) : height_values[i].t # "num"
               THEN Raise("ValueError")
          ELSE Ok([identifiers |-> root_source(c.what),
                   datetime |-> root_datetime(c.what),
                   what |-> c.what, where |-> c.where, how |-> c.how,
                   levels |-> [i \in 1..Len(height_values) |-> height_values[i].v],
                   variables |-> variables,
                   source_file |-> sf])

\* np.round(x, 6) of a value held in units of 1e-7: the result in units of 1e-6,
\* halves rounded to the even neighbour
np_round6(x) ==
    LET q == x \div 10
        r == x % 10
    IN  IF r > 5 \/ (r = 5 /\ q % 2 = 1) THEN q + 1 ELSE q

ListColumns == <<"height", "u", "v", "w", "ff", "dd", "sd_vvp", "gap", "eta", "dens",
                 "dbz", "dbz_all", "n", "n_dbz", "n_all", "n_dbz_all">>

\* the variable each list column of the mapping is read from
ColumnQuantity(col) == IF col = "dbz_all" THEN "DBZH" ELSE col

\* VptsCsvV1.mapping, the code shared by vpts.py and vpts_csv.py: vcp is the
\* outcome of the int_to_nodata call of the implementation at hand
mapping_with(p, vcp, regex) ==
    LET sf == check_source_file(p.source_file, regex)
    IN  IF "NOD" \notin DOMAIN p.identifiers THEN Raise("KeyError")
        ELSE IF ~(VariableNames \subseteq DOMAIN p.variables) THEN Raise("KeyError")
        ELSE IF ~number_to_bool_str(p.variables["gap"]).ok THEN Raise("KeyError")
        ELSE IF ~vcp.ok THEN vcp
        ELSE IF ~sf.ok THEN sf
        ELSE Ok([radar |-> Str(p.identifiers["NOD"]),
                 datetime |-> Str(datetime_to_proper8601(p.datetime)),
                 height |-> [i \in 1..Len(p.levels) |-> Num(p.levels[i])],
                 u |-> p.variables["u"], v |-> p.variables["v"],
                 w |-> p.variables["w"], ff |-> p.variables["ff"],
                 dd |-> p.variables["dd"], sd_vvp |-> p.variables["sd_vvp"],
                 gap |-> number_to_bool_str(p.variables["gap"]).val,
                 eta |-> p.variables["eta"], dens |-> p.variables["dens"],
                 dbz |-> p.variables["dbz"], dbz_all |-> p.variables["DBZH"],
                 n |-> p.variables["n"], n_dbz |-> p.variables["n_dbz"],
                 n_all |-> p.variables["n_all"], n_dbz_all |-> p.variables["n_dbz_all"],
                 rcs |-> p.how.rcs_bird,
                 sd_vvp_threshold |-> p.how.sd_vvp_thresh,
                 vcp |-> vcp.val,
                 radar_latitude |-> Num(np_round6(p.where.lat)),
                 radar_longitude |-> Num(np_round6(p.where.lon)),
                 radar_height |-> py_int(p.where.height).val,
                 radar_wavelength |-> Num(np_round6(p.how.wavelength)),
                 source_file |-> sf.val])

\* vpts.VptsCsvV1.mapping
VptsCsvV1_mapping(p) ==
    mapping_with(p, int_to_nodata(p.how.vcp, <<Str("NULL"), Num(0)>>, ""), "V1")

\* vpts_csv.VptsCsvV1.mapping
csv_VptsCsvV1_mapping(p) ==
    mapping_with(p, csv_int_to_nodata(Str(py_str(p.how.vcp)),
                                      <<Str("NULL"), Str("0")>>, ""), "V1")

----------------------------------------------------------------------------
(* vpts.py / vpts_csv.py: the schema versions *)

VptsCsvVersionError == "VptsCsvVersionError"

\* vpts._get_vpts_version, the lookup of vp() and vpts()
_get_vpts_version(version) ==
    IF version = "v1" THEN Ok([cls |-> "VptsCsvV1", module |-> "vpts"])
    ELSE Raise(VptsCsvVersionError)

\* vpts_csv.get_vpts_version
get_vpts_version(version) ==
    IF version = "v1.0" THEN Ok([cls |-> "VptsCsvV1", module |-> "vpts_csv"])
    ELSE Raise(VptsCsvVersionError)

\* properties of VptsCsvV1
nodata(mapper) == ""
undetect(mapper) == "NaN"
mapping(mapper, p) ==
    IF mapper.module = "vpts" THEN VptsCsvV1_mapping(p) ELSE csv_VptsCsvV1_mapping(p)

\* the decimal digits of a natural number
RECURSIVE digits(_)
digits(n) ==
    LET d == <<"0", "1", "2", "3", "4", "5", "6", "7", "8", "9">>
    IN  IF n < 10 THEN <<d[n + 1]>> ELSE Append(digits(n \div 10), d[(n % 10) + 1])

\* a sort that leaves height a string: "1000" sorts before "200"
row_lt_height_as_text(a, b) ==
    LET ha == digits(py_int(Str(a.height)).val.v)
        hb == digits(py_int(Str(b.height)).val.v)
    IN  IF a.radar # b.radar THEN text_lt(a.radar, b.radar)
        ELSE IF a.datetime # b.datetime THEN text_lt(a.datetime, b.datetime)
        ELSE IF ha # hb THEN str_lt(ha, hb)
        ELSE str_lt(a.source_file, b.source_file)

\* VptsCsvV1.sort: dict(radar=str, datetime=str, height=int, source_file=str)
row_lt(a, b) ==
    LET ha == py_int(Str(a.height)).val.v
        hb == py_int(Str(b.height)).val.v
    IN  IF a.radar # b.radar THEN text_lt(a.radar, b.radar)
        ELSE IF a.datetime # b.datetime THEN text_lt(a.datetime, b.datetime)
        ELSE IF ha # hb THEN ha < hb
        ELSE str_lt(a.source_file, b.source_file)

\* df.astype(sort).sort_values(by=list(sort.keys())).astype(str): a stable sort
RECURSIVE insert_sorted(_, _)
insert_sorted(r, rows) ==
    IF rows = <<>> THEN <<r>>
    ELSE IF row_lt(r, Head(rows)) THEN <<r>> \o rows
    ELSE <<Head(rows)>> \o insert_sorted(r, Tail(rows))

RECURSIVE sort_values(_)
sort_values(rows) ==
    IF rows = <<>> THEN <<>>
    ELSE insert_sorted(rows[Len(rows)], sort_values(SubSeq(rows, 1, Len(rows) - 1)))

\* df.replace({UNDETECT: undetect, NODATA: nodata}) on one cell
replace(cell, mapper) ==
    IF cell = UNDETECT THEN undetect(mapper)
    ELSE IF cell = NODATA THEN nodata(mapper)
    ELSE cell

\* one cell of the frame: str(x), then the replace
cell(x, mapper) == replace(py_str(x), mapper)

\* row i of DataFrame(mapping, dtype=str) after the replace: a scalar of the
\* mapping is broadcast, source_file is not touched by the replace
frame_row(cols, i, mapper) ==
    [radar |-> cell(cols.radar, mapper), datetime |-> cell(cols.datetime, mapper),
     height |-> cell(cols.height[i], mapper),
     u |-> cell(cols.u[i], mapper), v |-> cell(cols.v[i], mapper),
     w |-> cell(cols.w[i], mapper),
     ff |-> cell(cols.ff[i], mapper), dd |-> cell(cols.dd[i], mapper),
     sd_vvp |-> cell(cols.sd_vvp[i], mapper), gap |-> cell(cols.gap[i], mapper),
     eta |-> cell(cols.eta[i], mapper), dens |-> cell(cols.dens[i], mapper),
     dbz |-> cell(cols.dbz[i], mapper), dbz_all |-> cell(cols.dbz_all[i], mapper),
     n |-> cell(cols.n[i], mapper), n_dbz |-> cell(cols.n_dbz[i], mapper),
     n_all |-> cell(cols.n_all[i], mapper),
     n_dbz_all |-> cell(cols.n_dbz_all[i], mapper),
     rcs |-> cell(cols.rcs, mapper),
     sd_vvp_threshold |-> cell(cols.sd_vvp_threshold, mapper),
     vcp |-> cell(cols.vcp, mapper),
     radar_latitude |-> cell(cols.radar_latitude, mapper),
     radar_longitude |-> cell(cols.radar_longitude, mapper),
     radar_height |-> cell(cols.radar_height, mapper),
     radar_wavelength |-> cell(cols.radar_wavelength, mapper),
     source_file |-> cols.source_file]

\* the frame of a mapping, sorted; list columns of unequal length raise
frame(m, mapper) ==
    IF ~m.ok THEN m
    ELSE IF \E i \in 1..Len(ListColumns) :
               Len(m.val[ListColumns[i]]) # Len(m.val.height)
    THEN Raise("ValueError")
    ELSE Ok(sort_values([i \in 1..Len(m.val.height) |-> frame_row(m.val, i, mapper)]))

\* BirdProfile.to_vp: DataFrame(mapping, dtype=str), replace, sort
to_vp(p, mapper) == frame(mapping(mapper, p), mapper)

\* vpts._convert_to_source: Path(file_path).name
_convert_to_source(c) == c.file_name

----------------------------------------------------------------------------
(* The containers the calls are tried on *)

NameA == <<"a", ".", "h", "5">>
NameB == <<"b", ".", "h", "5">>

Dataset(gain, offset, nodata_val, undetect_val, data) ==
    [gain |-> gain, offset |-> offset, nodata |-> nodata_val,
     undetect |-> undetect_val, data |-> data, dtype |-> "int64"]

PlainData == Dataset(1, 0, 9, 8, <<5, 6>>)
GapData == [Dataset(1, 0, 255, 254, <<0, 1>>) EXCEPT !.dtype = "uint8"]

Container(name, keys, object, nod, time, vcp, hght, dd) ==
    [file_name |-> name,
     readable |-> TRUE,
     keys |-> keys,
     what |-> [object |-> object, date |-> "20221111", time |-> time,
               source |-> [NOD |-> nod]],
     where |-> [lat |-> 508731235, lon |-> 43512349, height |-> Num(50)],
     how |-> [vcp |-> vcp, rcs_bird |-> Num(11), sd_vvp_thresh |-> Num(2),
              wavelength |-> 53000004],
     ds |-> [HGHT |-> Dataset(1, 0, 9, 8, hght), dd |-> dd, gap |-> GapData,
             u |-> PlainData, v |-> PlainData, w |-> PlainData, ff |-> PlainData,
             sd_vvp |-> PlainData, eta |-> PlainData, dens |-> PlainData,
             dbz |-> PlainData, DBZH |-> PlainData, n |-> PlainData,
             n_dbz |-> PlainData, n_all |-> PlainData, n_dbz_all |-> PlainData]]

AllKeys == {"what", "how", "where", "dataset1"}

BaseContainer ==
    Container(NameA, AllKeys, "VP", "bejab", "233000", Num(12), <<200, 1000>>, PlainData)

\* dd datasets over every gain, offset and pair of raw samples; the sentinel
\* codes are 2 (nodata) and 1 (undetect)
SentinelContainers ==
    { [BaseContainer EXCEPT !.ds["dd"] = Dataset(g, o, 2, 1, <<r1, r2>>)] :
        g \in {1, 2}, o \in {0, 1}, r1 \in 0..MaxRaw, r2 \in 0..MaxRaw }

VcpValues == {Num(0), Num(1), Num(12), Str("NULL")}

VcpContainers == { [BaseContainer EXCEPT !.how.vcp = x] : x \in VcpValues }

\* containers that are no vertical profile: a root group is missing, the
\* object is a polar volume, or the file cannot be opened
LayoutContainers ==
    { [BaseContainer EXCEPT !.keys = AllKeys \ {k}] : k \in AllKeys }
    \cup { [BaseContainer EXCEPT !.what.object = "PVOL"],
           [BaseContainer EXCEPT !.readable = FALSE] }

KeyContainers ==
    { Container(name, AllKeys, "VP", nod, time, Num(12), hght, PlainData) :
        name \in {NameA, NameB}, nod \in {"bejab", "bewid"},
        time \in {"233000", "233500"}, hght \in {<<200, 1000>>, <<1000, 200>>} }

\* containers whose dd dataset holds fewer or more samples than HGHT
MisalignedContainers ==
    { [BaseContainer EXCEPT !.ds["dd"] = Dataset(1, 0, 9, 8, data)] :
        data \in {<<5>>, <<5, 6, 7>>} }

\* gap datasets over the flag values, another value and the sentinel codes 255
\* (nodata) and 254 (undetect)
GapSamples == {0, 1, 2, 254, 255}

GapContainers ==
    { [BaseContainer EXCEPT !.ds["gap"] = [GapData EXCEPT !.data = <<a, b>>]] :
        a \in GapSamples, b \in GapSamples }

Containers ==
    SentinelContainers \cup VcpContainers \cup LayoutContainers \cup KeyContainers
      \cup MisalignedContainers \cup GapContainers

\* the files handed to vpts(): two files of one radar and instant, a file of
\* another radar with its levels stored top down, a second file named like
\* the first, and a polar volume
VptsFiles ==
    { BaseContainer,
      Container(NameB, AllKeys, "VP", "bejab", "233000", Str("NULL"), <<200, 1000>>, PlainData),
      Container(NameB, AllKeys, "VP", "bewid", "233500", Num(0), <<1000, 200>>, PlainData),
      [BaseContainer EXCEPT !.ds["dd"] = Dataset(1, 0, 2, 1, <<1, 2>>)],
      [BaseContainer EXCEPT !.what.object = "PVOL", !.keys = AllKeys \ {"how"}] }

Versions == {"v1", "v1.0", "v8555"}

\* source_file arguments of vp(): none, a safe reference, an unsafe one
SourceFiles == { <<>>, <<"a", ":", "/", "/", "b">>, <<"/", "a">> }

\* source_file arguments of BirdProfile(...): the default "", a safe reference,
\* "/a" and "../a" as str, and a Path object
SourceArgs ==
    { [str |-> TRUE, v |-> s] : s \in SourceFiles \cup {<<".", ".", "/", "a">>} }
    \cup { [str |-> FALSE, v |-> <<"a">>] }

SeqsUpTo(S, n) == UNION { [1..k -> S] : k \in 0..n }

\* the strings handed to check_source_file directly
SourceChars == {"a", ".", "/", "~", "\n"}
SourceStrings == SeqsUpTo(SourceChars, MaxSourceLen)

----------------------------------------------------------------------------
(* Spec: vp(), vpts() and direct calls of the helpers *)

Unset == Raise("unset")
NoCall == [fn |-> "none", state |-> "idle"]

Task(c) == [file |-> c, pc |-> "queued", handle |-> "none",
            sf |-> <<>>, prof |-> Unset, out |-> Unset]

InFlight == { i \in 1..Len(tasks) : tasks[i].pc \in {"opened", "profiled", "closed"} }

\* vp(file_path, vpts_csv_version, source_file) is entered
vp_call(c, version, source_file) ==
    /\ call.fn = "none"
    /\ call' = [fn |-> "vp", state |-> "running", version |-> version,
                source_file |-> [callable |-> FALSE, v |-> source_file],
                processes |-> 1]
    /\ tasks' = <<Task(c)>>
    /\ UNCHANGED <<completed, result, manVars, cliVars>>

\* vpts(file_paths, vpts_csv_version): Pool(processes=cpu_count() - 1) and
\* pool.map(vp, file_paths); Pool raises ValueError for processes < 1
vpts_call(files, version, cpu_count) ==
    /\ call.fn = "none"
    /\ IF cpu_count - 1 < 1
       THEN /\ call' = [fn |-> "vpts", state |-> "returned", version |-> version,
                        source_file |-> [callable |-> TRUE, v |-> <<>>],
                        processes |-> cpu_count - 1]
            /\ tasks' = <<>>
            /\ result' = Raise("ValueError")
       ELSE /\ call' = [fn |-> "vpts", state |-> "running", version |-> version,
                        source_file |-> [callable |-> TRUE, v |-> <<>>],
                        processes |-> cpu_count - 1]
            /\ tasks' = [i \in 1..Len(files) |-> Task(files[i])]
            /\ UNCHANGED result
    /\ UNCHANGED <<completed, manVars, cliVars>>

\* vp(): the source_file callable is applied, ODIMReader(file_path) opens the
\* file.  Pool tasks are handed out in the order of file_paths, at most
\* `processes` at a time.
ODIMReader_init(i) ==
    /\ call.state = "running"
    /\ tasks[i].pc = "queued"
    /\ \A j \in 1..(i - 1) : tasks[j].pc # "queued"
    /\ Cardinality(InFlight) < call.processes
    /\ LET c == tasks[i].file
           sf == IF call.source_file.callable THEN _convert_to_source(c)
                 ELSE call.source_file.v
       IN  IF c.readable
           THEN /\ tasks' = [tasks EXCEPT ![i].pc = "opened", ![i].handle = "open",
                                          ![i].sf = sf]
                /\ UNCHANGED completed
           ELSE /\ tasks' = [tasks EXCEPT ![i].pc = "done", ![i].sf = sf,
                                          ![i].out = Raise("OSError")]
                /\ completed' = Append(completed, i)
    /\ UNCHANGED <<call, result, manVars, cliVars>>

\* vp(): BirdProfile.from_odim(odim_vp, source_file) inside the with block
BirdProfile_from_odim(i) ==
    /\ call.state = "running"
    /\ tasks[i].pc = "opened"
    /\ tasks' = [tasks EXCEPT ![i].pc = "profiled",
                              ![i].prof = from_odim(tasks[i].file, tasks[i].sf)]
    /\ UNCHANGED <<call, completed, result, manVars, cliVars>>

\* an __exit__ that closes the file only when the block ended normally
ODIMReader_exit_on_success(i) ==
    /\ call.state = "running"
    /\ tasks[i].pc = "profiled"
    /\ IF tasks[i].prof.ok
       THEN /\ tasks' = [tasks EXCEPT ![i].pc = "closed", ![i].handle = "closed"]
            /\ UNCHANGED completed
       ELSE /\ tasks' = [tasks EXCEPT ![i].pc = "done", ![i].out = tasks[i].prof]
            /\ completed' = Append(completed, i)
    /\ UNCHANGED <<call, result, manVars, cliVars>>

\* vp(): the with block is left, ODIMReader.__exit__ closes the file; an
\* exception raised by from_odim leaves vp() here
ODIMReader_exit(i) ==
    /\ call.state = "running"
    /\ tasks[i].pc = "profiled"
    /\ IF tasks[i].prof.ok
       THEN /\ tasks' = [tasks EXCEPT ![i].pc = "closed", ![i].handle = "closed"]
            /\ UNCHANGED completed
       ELSE /\ tasks' = [tasks EXCEPT ![i].pc = "done", ![i].handle = "closed",
                                      ![i].out = tasks[i].prof]
            /\ completed' = Append(completed, i)
    /\ UNCHANGED <<call, result, manVars, cliVars>>

\* vp(): return vp.to_vp(_get_vpts_version(vpts_csv_version))
BirdProfile_to_vp(i) ==
    /\ call.state = "running"
    /\ tasks[i].pc = "closed"
    /\ LET mapper == _get_vpts_version(call.version)
       IN  tasks' = [tasks EXCEPT ![i].pc = "done",
                                  ![i].out = IF mapper.ok
                                             THEN to_vp(tasks[i].prof.val, mapper.val)
                                             ELSE mapper]
    /\ completed' = Append(completed, i)
    /\ UNCHANGED <<call, result, manVars, cliVars>>

\* vp() returns what its single execution produced
vp_return ==
    /\ call.fn = "vp"
    /\ call.state = "running"
    /\ tasks[1].pc = "done"
    /\ result' = tasks[1].out
    /\ call' = [call EXCEPT !.state = "returned"]
    /\ UNCHANGED <<tasks, completed, manVars, cliVars>>

\* a concatenation that keeps one row per (radar, datetime, height)
RECURSIVE concat_drop_duplicates(_)
concat_drop_duplicates(data) ==
    IF data = <<>> THEN <<>>
    ELSE LET kept == concat_drop_duplicates(SubSeq(data, 1, Len(data) - 1))
             fresh(r) == \A k \in 1..Len(kept) :
                            \/ kept[k].radar # r.radar
                            \/ kept[k].datetime # r.datetime
                            \/ kept[k].height # r.height
         IN  kept \o SelectSeq(data[Len(data)], fresh)

RECURSIVE concat(_)
concat(data) == IF data = <<>> THEN <<>> ELSE Head(data) \o concat(Tail(data))

\* a map that leaves out the tasks that raised
SkipFailures ==
    Ok(sort_values(concat([k \in 1..Len(SelectSeq(tasks, LAMBDA t : t.out.ok)) |->
                             SelectSeq(tasks, LAMBDA t : t.out.ok)[k].out.val])))

\* the first task, in order of completion, that raised
FirstFailure ==
    LET k == CHOOSE k \in 1..Len(completed) :
                 /\ ~tasks[completed[k]].out.ok
                 /\ \A j \in 1..(k - 1) : tasks[completed[j]].out.ok
    IN  tasks[completed[k]].out

\* vpts(): pool.map returns once every task is done and re-raises the first
\* exception a task raised; pd.concat, the version lookup and the sort
vpts_return ==
    /\ call.fn = "vpts"
    /\ call.state = "running"
    /\ \A i \in 1..Len(tasks) : tasks[i].pc = "done"
    /\ LET mapper == _get_vpts_version(call.version)
           data == [i \in 1..Len(tasks) |-> tasks[i].out.val]
       IN  result' =
             IF \E i \in 1..Len(tasks) : ~tasks[i].out.ok THEN FirstFailure
             ELSE IF tasks = <<>> THEN Raise("ValueError")
             ELSE IF ~mapper.ok THEN mapper
             ELSE Ok(sort_values(concat(data)))
    /\ call' = [call EXCEPT !.state = "returned"]
    /\ UNCHANGED <<tasks, completed, manVars, cliVars>>

\* check_source_file(source_file, VptsCsvV1.source_file_regex) called directly
check_source_file_call(s) ==
    /\ call.fn = "none"
    /\ call' = [fn |-> "check_source_file", state |-> "returned", arg |-> s]
    /\ result' = check_source_file(s, "V1")
    /\ UNCHANGED <<tasks, completed, manVars, cliVars>>

\* vpts_csv.get_vpts_version(version) called directly
get_vpts_version_call(version) ==
    /\ call.fn = "none"
    /\ call' = [fn |-> "get_vpts_version", state |-> "returned", version |-> version]
    /\ result' = get_vpts_version(version)
    /\ UNCHANGED <<tasks, completed, manVars, cliVars>>

\* BirdProfile.from_odim(reader).to_vp(get_vpts_version(version)), the way the
\* tests and other callers map a profile with a vpts_csv schema object
to_vp_call(c, version) ==
    /\ call.fn = "none"
    /\ c.readable
    /\ LET prof == from_odim(c, <<>>)
           mapper == get_vpts_version(version)
       IN  /\ call' = [fn |-> "to_vp", state |-> "returned", version |-> version,
                       file |-> c, prof |-> prof]
           /\ result' = IF ~prof.ok THEN prof
                        ELSE IF ~mapper.ok THEN mapper
                        ELSE to_vp(prof.val, mapper.val)
    /\ UNCHANGED <<tasks, completed, manVars, cliVars>>

\* BirdProfile(..., source_file=...) on the fields read from a file, the way
\* the tests build a profile
BirdProfile_call(c, source_file) ==
    /\ call.fn = "none"
    /\ call' = [fn |-> "BirdProfile", state |-> "constructed", version |-> "",
                file |-> c, source_file |-> source_file,
                prof |-> BirdProfile(from_odim(c, <<>>).val, source_file)]
    /\ UNCHANGED <<tasks, completed, result, manVars, cliVars>>

\* profile.to_vp(_get_vpts_version(version)) on a profile built that way
constructed_to_vp(version) ==
    /\ call.fn = "BirdProfile"
    /\ call.state = "constructed"
    /\ call.prof.ok
    /\ LET mapper == _get_vpts_version(version)
       IN  result' = IF mapper.ok THEN to_vp(call.prof.val, mapper.val) ELSE mapper
    /\ call' = [call EXCEPT !.state = "returned", !.version = version]
    /\ UNCHANGED <<tasks, completed, manVars, cliVars>>

\* odim.hdf5.mode: h5py gives the mode of an open file and raises ValueError
\* on a closed one
hdf5_mode(handle) == IF handle = "open" THEN Ok("r") ELSE Raise("ValueError")

\* odim = ODIMReader(path); odim.hdf5.mode; odim.close(); odim.hdf5.mode
close_call(c) ==
    /\ call.fn = "none"
    /\ c.readable
    /\ call' = [fn |-> "close", state |-> "returned", file |-> c,
                before |-> hdf5_mode("open"), handle |-> "closed"]
    /\ result' = hdf5_mode("closed")
    /\ UNCHANGED <<tasks, completed, manVars, cliVars>>

\* with ODIMReader(path) as odim: check_vp_odim(odim)
reader_check(c) == IF ~c.readable THEN Raise("OSError") ELSE check_vp_odim(c)

\* check_vp_odim called on a file, the way the tests call it
check_vp_odim_call(c) ==
    /\ call.fn = "none"
    /\ call' = [fn |-> "check_vp_odim", state |-> "returned", file |-> c]
    /\ result' = reader_check(c)
    /\ UNCHANGED <<tasks, completed, manVars, cliVars>>

ConvInit ==
    /\ call = NoCall
    /\ tasks = <<>>
    /\ completed = <<>>
    /\ result = Unset

Next ==
    \/ \E c \in Containers, version \in Versions, sf \in SourceFiles : vp_call(c, version, sf)
    \/ \E files \in SeqsUpTo(VptsFiles, MaxFiles), version \in Versions, n \in 1..MaxCpu :
          vpts_call(files, version, n)
    \/ \E i \in 1..Len(tasks) : ODIMReader_init(i)
    \/ \E i \in 1..Len(tasks) : BirdProfile_from_odim(i)
    \/ \E i \in 1..Len(tasks) : ODIMReader_exit(i)
    \/ \E i \in 1..Len(tasks) : BirdProfile_to_vp(i)
    \/ vp_return
    \/ vpts_return
    \/ \E s \in SourceStrings : check_source_file_call(s)
    \/ \E version \in Versions : get_vpts_version_call(version)
    \/ \E c \in VcpContainers \cup SentinelContainers \cup GapContainers, version \in Versions :
          to_vp_call(c, version)
    \/ \E c \in LayoutContainers \cup KeyContainers : check_vp_odim_call(c)
    \/ \E c \in VcpContainers \cup MisalignedContainers, sf \in SourceArgs :
          BirdProfile_call(c, sf)
    \/ \E version \in Versions : constructed_to_vp(version)
    \/ \E c \in KeyContainers : close_call(c)

ManIdle ==
    /\ manifest = <<>>
    /\ lookback = 0
    /\ now = 4
    /\ mpc = "idle"
    /\ cursor = 1
    /\ readings = <<>>
    /\ df_coverage = <<>>
    /\ df_last_n_days = <<>>
    /\ mresult = Unset

CliIdle ==
    /\ store = {}
    /\ daily = <<>>
    /\ monthly = <<>>
    /\ cpc = "idle"
    /\ days = <<>>
    /\ dayidx = 0
    /\ listed = <<>>
    /\ fetched = <<>>
    /\ months = <<>>
    /\ cexc = "none"
    /\ coverage = {}
    /\ cpus = 0
    /\ removed = {}
    /\ earlier = <<>>

Init == ConvInit /\ ManIdle /\ CliIdle

Spec == Init /\ [][Next]_vars

----------------------------------------------------------------------------
(* Properties of Spec *)

DoneOk(i) == tasks[i].pc = "done" /\ tasks[i].out.ok

\* every table a vp() execution or a direct to_vp produced, with its container
Produced ==
    { [file |-> tasks[i].file, rows |-> tasks[i].out.val] :
        i \in { j \in 1..Len(tasks) : DoneOk(j) } }
    \cup (IF call.fn = "to_vp" /\ result.ok
          THEN { [file |-> call.file, rows |-> result.val] } ELSE {})

\* the value a height sample decodes to
LevelOf(file, i) ==
    LET d == file.ds["HGHT"] IN astype(d.data[i] * d.gain + d.offset, d.dtype)

\* the row of a table that holds sample i of the container
RowOfSample(t, i) ==
    t.rows[CHOOSE k \in 1..Len(t.rows) : t.rows[k].height = ToString(LevelOf(t.file, i))]

\* the cell the sentinel rule asks for: decided on the raw stored sample
SentinelCell(d, i) ==
    IF d.data[i] = d.nodata THEN ""
    ELSE IF d.data[i] = d.undetect THEN "NaN"
    ELSE ToString(astype(d.gain * d.data[i] + d.offset, d.dtype))

VariableColumns == {"u", "v", "w", "ff", "dd", "sd_vvp", "eta", "dens", "dbz",
                    "dbz_all", "n", "n_dbz", "n_all", "n_dbz_all"}

\* C1: in every produced table the cell of a variable sample is the nodata
\* token exactly when the raw stored sample equals the dataset's nodata code,
\* the undetect token exactly when it equals the undetect code, and
\* gain*raw+offset in the storage type otherwise, whatever gain and offset are.
C1_SentinelOnRaw ==
    \A t \in Produced : \A col \in VariableColumns :
        LET d == t.file.ds[ColumnQuantity(col)]
        IN  \A i \in 1..Len(d.data) :
                RowOfSample(t, i)[col] = SentinelCell(d, i)

\* the sort key of a row, compared with the declared types
HeightOf(r) == CHOOSE h \in IntLiterals : ToString(h) = r.height

KeyLeq(a, b) ==
    IF a.radar # b.radar THEN text_rank(a.radar) < text_rank(b.radar)
    ELSE IF a.datetime # b.datetime THEN text_rank(a.datetime) < text_rank(b.datetime)
    ELSE IF HeightOf(a) # HeightOf(b) THEN HeightOf(a) < HeightOf(b)
    ELSE a.source_file = b.source_file \/ str_lt(a.source_file, b.source_file)

\* every table returned by vp() or vpts()
Returned ==
    IF call.fn \in {"vp", "vpts"} /\ call.state = "returned" /\ result.ok
    THEN {result.val} ELSE {}

\* C2: the rows returned by vp() and vpts() are in non-decreasing order of
\* (radar as text, datetime as text, height as integer, source_file as text),
\* and sorting them again gives the same sequence.
C2_RowsSorted ==
    \A rows \in Returned :
        /\ \A i \in 1..Len(rows) : \A j \in i..Len(rows) : KeyLeq(rows[i], rows[j])
        /\ sort_values(rows) = rows

\* C2 witness: a returned table of a container that stores its levels top down
\* has the row of height 200 before the row of height 1000
C2_Witness ==
    \E rows \in Returned :
        /\ call.fn = "vp"
        /\ tasks[1].file.ds["HGHT"].data = <<1000, 200>>
        /\ rows[1].height = "200" /\ rows[2].height = "1000"

Count(r, rows) == Cardinality({ k \in 1..Len(rows) : rows[k] = r })

RECURSIVE SumCount(_, _)
SumCount(r, i) ==
    IF i = 0 THEN 0 ELSE Count(r, tasks[i].out.val) + SumCount(r, i - 1)

RECURSIVE SumLevels(_)
SumLevels(i) ==
    IF i = 0 THEN 0 ELSE Len(tasks[i].file.ds["HGHT"].data) + SumLevels(i - 1)

\* C3: the table vpts() returns holds every row each file's vp() returned, as
\* often as the files returned it: one row per (input file, level), nothing
\* dropped or merged.
C3_MultisetUnion ==
    (call.fn = "vpts" /\ call.state = "returned" /\ result.ok) =>
        /\ Len(result.val) = SumLevels(Len(tasks))
        /\ \A i \in 1..Len(tasks) : \A k \in 1..Len(tasks[i].out.val) :
              Count(tasks[i].out.val[k], result.val)
                  = SumCount(tasks[i].out.val[k], Len(tasks))
        /\ \A k \in 1..Len(result.val) : SumCount(result.val[k], Len(tasks)) > 0

\* C3 witness: two files of the same radar, instant and heights were converted
\* and the four rows are all there
C3_Witness ==
    /\ call.fn = "vpts" /\ call.state = "returned" /\ result.ok
    /\ Len(tasks) = 2
    /\ tasks[1].file.file_name # tasks[2].file.file_name
    /\ Len(result.val) = 4
    /\ \E i, j \in 1..4 :
          /\ i # j
          /\ result.val[i].radar = result.val[j].radar
          /\ result.val[i].datetime = result.val[j].datetime
          /\ result.val[i].height = result.val[j].height
          /\ result.val[i].source_file # result.val[j].source_file

\* the orders in which n files can be listed
Orders(n) == { p \in [1..n -> 1..n] : \A i, j \in 1..n : i # j => p[i] # p[j] }

\* what vpts() returns when the files of the call are listed in order p
ReturnedFor(p) ==
    sort_values(concat([i \in 1..Len(tasks) |-> tasks[p[i]].out.val]))

\* C23: for a fixed set of input files the row sequence vpts() returns is the
\* same for every order in which the workers finish and for every order in
\* which the files are listed, rows that share the full sort key included.
C23_OrderIndependent ==
    (call.fn = "vpts" /\ call.state = "returned" /\ result.ok) =>
        \A p \in Orders(Len(tasks)) : ReturnedFor(p) = result.val

\* C26: the number of workers vpts() starts is max(1, execution units - 1): at
\* least one on every machine, so that no call of vpts() ends before a file is
\* handed to a worker because the pool could not be made.
C26_AtLeastOneWorker ==
    (call.fn = "vpts") =>
        /\ call.processes >= 1
        /\ call.state = "returned" => Len(completed) = Len(tasks)

\* C6: every schema-version lookup returns the VptsCsvV1 mapper for "v1.0" and
\* raises VptsCsvVersionError for every other string: the direct
\* get_vpts_version and the lookup vp() and vpts() make once a profile is read.
C6_LookupTotal ==
    /\ (call.fn = "get_vpts_version") =>
          IF call.version = "v1.0" THEN result.ok /\ result.val.cls = "VptsCsvV1"
          ELSE result = Raise(VptsCsvVersionError)
    /\ \A i \in 1..Len(tasks) :
          (tasks[i].pc = "done" /\ tasks[i].prof.ok) =>
              IF call.version = "v1.0"
              THEN tasks[i].out # Raise(VptsCsvVersionError)
              ELSE tasks[i].out = Raise(VptsCsvVersionError)

\* the vcp cell the rule asks for
VcpCell(vcp) == IF vcp = Num(0) \/ vcp = Str("NULL") THEN "" ELSE ToString(vcp.v)

\* C7: in every produced table the vcp cell is the nodata token when how.vcp
\* is the integer 0 or the string "NULL" and the decimal string of the integer
\* otherwise; both VptsCsvV1.mapping implementations map every such vcp.
C7_VcpNodata ==
    /\ \A t \in Produced : \A k \in 1..Len(t.rows) :
          t.rows[k].vcp = VcpCell(t.file.how.vcp)
    /\ (call.fn = "to_vp" /\ call.version = "v1.0" /\ call.file \in VcpContainers)
          => result.ok
    /\ (call.fn = "vp" /\ call.state = "returned" /\ call.version = "v1"
           /\ tasks[1].file \in VcpContainers /\ call.source_file.v # <<"/", "a">>)
          => result.ok

\* C7 witness: a profile whose vcp is 0 or "NULL" was mapped by the vpts_csv
\* schema object and its vcp cell is the nodata token
C7_Witness ==
    \E t \in Produced :
        /\ Len(t.rows) > 0
        /\ \/ t.file.how.vcp = Num(0) /\ t.rows[1].vcp = ""
           \/ t.file.how.vcp = Str("NULL") /\ t.rows[1].vcp = ""
        /\ call.fn = "to_vp"

HasDoubleDot(s) == \E i \in 1..(Len(s) - 1) : s[i] = "." /\ s[i + 1] = "."

PathSafe(s) == s # <<>> /\ s[1] \notin {"/", ".", "~"} /\ ~HasDoubleDot(s)

\* C8 as stated: check_source_file returns the reference unchanged when it is
\* non-empty, does not start with '/', '.' or '~' and holds no '..', and raises
\* ValueError in every other case.
C8_Original ==
    (call.fn = "check_source_file") =>
        IF PathSafe(call.arg) THEN result = Ok(call.arg)
        ELSE result = Raise("ValueError")

\* a line break anywhere but at the very end of the reference
InnerNewline(s) == \E i \in 1..(Len(s) - 1) : s[i] = "\n"

\* C8 amended: check_source_file returns the reference unchanged when it is
\* non-empty, does not start with '/', '.' or '~', holds no '..' and holds no
\* line break other than a final one; it raises ValueError in every other case.
C8_Amended ==
    (call.fn = "check_source_file") =>
        IF PathSafe(call.arg) /\ ~InnerNewline(call.arg) THEN result = Ok(call.arg)
        ELSE result = Raise("ValueError")

\* C8 witness: a reference with a scheme-like prefix came back unchanged
C8_Witness ==
    /\ call.fn = "check_source_file"
    /\ call.arg = <<"a", "/", "a">>
    /\ result = Ok(<<"a", "/", "a">>)

\* C9: vp() on a container that lacks one of what/how/where or whose
\* what.object is not "VP" builds no profile and raises InvalidSourceODIM.
C9_InvalidSource ==
    (call.fn = "vp" /\ ~check_vp_odim(tasks[1].file).ok /\ tasks[1].file.readable) =>
        /\ ~tasks[1].prof.ok
        /\ tasks[1].pc = "done" => tasks[1].out = Raise(InvalidSourceODIM)
        /\ call.state = "returned" => result = Raise(InvalidSourceODIM)

\* the executions of vp() inside a returned vpts() that raised
FailedTasks ==
    IF call.fn = "vpts" /\ call.state = "returned"
    THEN { i \in 1..Len(tasks) : ~tasks[i].out.ok } ELSE {}

\* C14: when the conversion of one of the files given to vpts() fails, vpts()
\* raises the failure of a file and returns no table; a returned table never
\* lacks the rows of a file that failed.
C14_FailureRaised ==
    FailedTasks # {} =>
        /\ ~result.ok
        /\ \E i \in FailedTasks : result = tasks[i].out

\* C14 witness: vpts() was given a file that converts and a file that does
\* not, and returned the failure of the second
C14_Witness ==
    /\ Len(tasks) = 2
    /\ FailedTasks = {2}
    /\ tasks[1].out.ok /\ Len(tasks[1].out.val) = 2
    /\ ~result.ok /\ result = tasks[2].out

\* a call of vp() or vpts() with a version that their lookup does not know
UnsupportedCall ==
    call.fn \in {"vp", "vpts"} /\ ~_get_vpts_version(call.version).ok

\* C15: a call of vp() or vpts() with an unsupported schema version opens and
\* parses no input file and ends with VptsCsvVersionError, whatever the files
\* are; it returns no rows.
C15_VersionFirst ==
    UnsupportedCall =>
        /\ \A i \in 1..Len(tasks) : tasks[i].pc = "queued" /\ tasks[i].handle = "none"
        /\ call.state = "returned" => result = Raise(VptsCsvVersionError)

\* a file that cannot be opened or lacks one of the root groups
Malformed(c) == ~c.readable \/ ~({"what", "how", "where"} \subseteq c.keys)

\* a container with all root groups that is no vertical profile
WrongKind(c) == ~Malformed(c) /\ c.what.object # "VP"

\* C16: the error check_vp_odim reports for a well-formed container of the
\* wrong object kind differs in kind from the error reported for every
\* malformed container.
C16_KindsDistinct ==
    (call.fn = "check_vp_odim" /\ WrongKind(call.file)) =>
        /\ ~result.ok
        /\ \A m \in LayoutContainers :
              Malformed(m) => reader_check(m) # result

\* C18: constructing a BirdProfile succeeds for every str source_file, unsafe
\* ones included, and keeps it as given; a source_file that is no str raises
\* TypeError; mapping a profile whose reference is unsafe with a schema version
\* raises ValueError and produces no rows.
C18_CheckedAtMapping ==
    (call.fn = "BirdProfile") =>
        /\ call.source_file.str =>
              call.prof.ok /\ call.prof.val.source_file = call.source_file.v
        /\ ~call.source_file.str => call.prof = Raise("TypeError")
        /\ (call.state = "returned" /\ call.version = "v1"
                /\ ~PathSafe(call.source_file.v)) =>
              result = Raise("ValueError")

\* C18 witness: profiles with "/a" and with "../a" were built, and mapping the
\* first with v1 raised ValueError; a Path object raised TypeError
C18_Witness ==
    /\ call.fn = "BirdProfile"
    /\ call.state = "returned"
    /\ call.version = "v1"
    /\ call.prof.ok
    /\ call.prof.val.source_file = <<"/", "a">>
    /\ result = Raise("ValueError")
    /\ BirdProfile(call.prof.val, [str |-> TRUE, v |-> <<".", ".", "/", "a">>]).ok
    /\ ~BirdProfile(call.prof.val, [str |-> FALSE, v |-> <<"a">>]).ok

\* the profiles built so far: by vp() and vpts(), by from_odim, by BirdProfile()
Profiles ==
    { tasks[i].prof : i \in { j \in 1..Len(tasks) : tasks[j].prof.ok } }
    \cup (IF call.fn \in {"to_vp", "BirdProfile"} /\ call.prof.ok
          THEN {call.prof} ELSE {})

\* C19 as stated: after construction the source_file of a BirdProfile is never
\* the empty string.
C19_Original ==
    \A p \in Profiles : p.val.source_file # <<>>

\* C19 amended: a profile built by from_odim never has an empty source_file,
\* and with no or an empty reference it carries the name of the file it was
\* read from; a profile constructed directly keeps the source_file it is given,
\* the empty string included.
C19_Amended ==
    /\ \A i \in 1..Len(tasks) :
          tasks[i].prof.ok =>
            /\ tasks[i].prof.val.source_file # <<>>
            /\ tasks[i].sf = <<>> => tasks[i].prof.val.source_file = tasks[i].file.file_name
    /\ (call.fn = "to_vp" /\ call.prof.ok) =>
          call.prof.val.source_file = call.file.file_name
    /\ (call.fn = "BirdProfile" /\ call.prof.ok) =>
          call.prof.val.source_file = call.source_file.v

\* C19 witness: vp() without a source reference built a profile named after
\* the file
C19_Witness ==
    /\ call.fn = "vp"
    /\ call.source_file.v = <<>>
    /\ tasks[1].prof.ok
    /\ tasks[1].prof.val.source_file = NameA

\* C27: no BirdProfile, built directly or by from_odim, holds a variable whose
\* value sequence differs in length from levels: such a construction fails.
C27_LevelsAligned ==
    \A p \in Profiles : \A q \in DOMAIN p.val.variables :
        Len(p.val.variables[q]) = Len(p.val.levels)

\* the value gap sample i of a container is decoded to
GapOf(file, i) == odim_get_variables(file.ds["gap"])[i]

\* a container with a gap sample that is decoded to neither 1 nor 0
GapUnmappable(file) ==
    \E i \in 1..Len(file.ds["gap"].data) :
        ~(py_eq(GapOf(file, i), 1) \/ py_eq(GapOf(file, i), 0))

\* C30: every gap cell of a produced table is TRUE or FALSE, TRUE for a sample
\* decoded to 1 and FALSE for a sample decoded to 0; a profile with a gap sample
\* decoded to NODATA, UNDETECT or another value is not mapped: its mapping
\* raises KeyError and no row is produced.
C30_GapBoolean ==
    /\ \A t \in Produced :
          /\ \A k \in 1..Len(t.rows) : t.rows[k].gap \in {"TRUE", "FALSE"}
          /\ \A i \in 1..Len(t.file.ds["gap"].data) :
                RowOfSample(t, i).gap
                  = (IF py_eq(GapOf(t.file, i), 1) THEN "TRUE" ELSE "FALSE")
          /\ ~GapUnmappable(t.file)
    /\ \A i \in 1..Len(tasks) :
          (tasks[i].pc = "done" /\ tasks[i].prof.ok /\ call.version = "v1"
             /\ GapUnmappable(tasks[i].file)) => tasks[i].out = Raise("KeyError")
    /\ (call.fn = "to_vp" /\ call.prof.ok /\ call.version = "v1.0"
          /\ GapUnmappable(call.file)) => result = Raise("KeyError")

\* C30 witness: vp() on a file whose gap samples are the nodata code and 1
\* raised KeyError
C30_Witness ==
    /\ call.fn = "vp"
    /\ call.state = "returned"
    /\ call.version = "v1"
    /\ tasks[1].file.ds["gap"].data = <<255, 1>>
    /\ GapOf(tasks[1].file, 1) = Str(NODATA)
    /\ result = Raise("KeyError")

\* C20: the file an ODIMReader opened for a with block is closed once the block
\* is left, by its end or by an exception raised inside it; a closed file
\* cannot be read.
C20_ClosedOnExit ==
    /\ \A i \in 1..Len(tasks) :
          /\ tasks[i].pc \in {"opened", "profiled"} => tasks[i].handle = "open"
          /\ tasks[i].pc \in {"closed", "done"} =>
                tasks[i].handle = (IF tasks[i].file.readable THEN "closed" ELSE "none")
    /\ (call.fn = "close") =>
          /\ call.before = Ok("r")
          /\ result = Raise("ValueError")
    /\ \A h \in {"closed", "none"} : ~hdf5_mode(h).ok

\* C20 witness: from_odim raised inside the with block of one file of a vpts()
\* call while another file went through, and both files are closed
C20_Witness ==
    /\ call.fn = "vpts"
    /\ \E i, j \in 1..Len(tasks) :
          /\ tasks[i].pc = "done" /\ tasks[i].out = Raise("KeyError")
          /\ tasks[i].handle = "closed"
          /\ tasks[j].pc = "done" /\ tasks[j].prof.ok
          /\ tasks[j].handle = "closed"

----------------------------------------------------------------------------
(* s3.py: the keys of the inventory.  A key is the sequence of its path      *)
(* items (what split("/") gives); an item is a sequence of pieces, with "."  *)
(* and "_" pieces of their own, so that the program's splits and its file    *)
(* name pattern can be followed piece by piece.                              *)

Letters5 == {"bejab", "bewid", "BEJAB"}
LowerWords == {"vp", "pvol"}
Digits4 == {"2023"}
Digits2 == {"00", "01", "02", "29", "30"}

\* str.lower() of a radar code
lower(w) == IF w = "BEJAB" THEN "bejab" ELSE w

\* "/".join(items) as one sequence of pieces
RECURSIVE join(_)
join(items) ==
    IF items = <<>> THEN <<>>
    ELSE IF Len(items) = 1 THEN items[1]
    ELSE items[1] \o <<"/">> \o join(Tail(items))

\* the piece at position i, "" beyond the end
At(p, i) == IF i \in 1..Len(p) THEN p[i] ELSE ""

\* item.split(".")[-1]: the pieces after the last "."
split_dot_last(item) ==
    LET dots == { i \in 1..Len(item) : item[i] = "." }
    IN  IF dots = {} THEN item
        ELSE SubSeq(item, (CHOOSE i \in dots : \A j \in dots : j <= i) + 1, Len(item))

\* the groups of name_regex when ([a-zA-Z]{2})([a-zA-Z]{3}) is the piece at i, the
\* data type at t (0: empty), the year at y and the hour at h
\*   .*([a-zA-Z]{2})([a-zA-Z]{3})_([a-z]*)_(\d\d\d\d)(\d\d)(\d\d)T?(\d\d)(\d\d)(?:Z|00)?.*\.h5
name_regex_groups(p, i, t, y, h) ==
    [matched |-> /\ At(p, i) \in Letters5
                 /\ At(p, i + 1) = "_"
                 /\ t >= 0
                 /\ At(p, y) \in Digits4
                 /\ At(p, y + 1) \in Digits2 /\ At(p, y + 2) \in Digits2
                 /\ At(p, h) \in Digits2 /\ At(p, h + 1) \in Digits2
                 /\ \E m \in (h + 2)..(Len(p) - 1) : p[m] = "." /\ p[m + 1] = "h5",
     radar_code |-> lower(At(p, i)),
     data_type |-> IF t > 0 THEN At(p, t) ELSE "",
     year |-> At(p, y), month |-> At(p, y + 1), day |-> At(p, y + 2),
     hour |-> At(p, h), minute |-> At(p, h + 1)]

\* the optional T between day and hour
name_regex_date(p, i, t, y) ==
    name_regex_groups(p, i, t, y, IF At(p, y + 3) = "T" THEN y + 4 ELSE y + 3)

\* ([a-z]*) is a lower-case word or empty; -1: neither
name_regex_type(p, i, t) ==
    name_regex_date(p, i, t, IF t > 0 THEN t + 2 ELSE i + 3)

name_regex_at(p, i) ==
    name_regex_type(p, i, IF At(p, i + 2) \in LowerWords /\ At(p, i + 3) = "_" THEN i + 2
                          ELSE IF At(p, i + 2) = "_" THEN 0 ELSE -1)

\* match.groups() and Path(file_name).name
parse_groups(g, file_name) ==
    Ok([radar_code |-> g.radar_code, data_type |-> g.data_type,
        year |-> g.year, month |-> g.month, day |-> g.day,
        hour |-> g.hour, minute |-> g.minute, file_name |-> file_name])

\* the leading .* is greedy: the groups are those of the last place where the
\* pattern matches
parse_last(items, p, hits) ==
    IF hits = {} THEN Raise("ValueError")
    ELSE parse_groups(name_regex_at(p, CHOOSE i \in hits : \A j \in hits : j <= i),
                      items[Len(items)])

parse_pieces(items, p) ==
    parse_last(items, p, { i \in 1..Len(p) : name_regex_at(p, i).matched })

\* OdimFilePath.parse_file_name on the whole path
parse_file_name(items) == parse_pieces(items, join(items))

\* the path object of a key whose name was parsed
inventory_path(items, parsed) ==
    IF ~parsed.ok THEN parsed
    ELSE IF Len(items) < 2 THEN Raise("IndexError")
    ELSE Ok([source |-> items[1], file_type |-> items[2]] @@ parsed.val)

\* OdimFilePath.from_inventory: split("/")[0], parse_file_name, split("/")[1]
from_inventory(items) == inventory_path(items, parse_file_name(items))

\* the group of a path object
daily_group(path_info) ==
    IF ~path_info.ok THEN path_info
    ELSE Ok(<<path_info.val.source, path_info.val.file_type,
              path_info.val.radar_code, path_info.val.year,
              path_info.val.month, path_info.val.day>>)

\* s3.extract_daily_group_from_inventory
extract_daily_group_from_inventory(items) == daily_group(from_inventory(items))

----------------------------------------------------------------------------
(* s3.py: handle_manifest.  Time is counted in half days since               *)
(* 2023-01-27T00:00:00Z.                                                     *)

MaxRows == 3         \* rows in one manifest
MaxLookback == 2     \* modified_days_ago ranges over 0..MaxLookback days
MaxNow == 7          \* the clock does not advance beyond this
ChunkSize == 2       \* rows per chunk, standing for chunksize=50000

\* pd.to_datetime(df["modified"], format="%Y-%m-%dT%H:%M:%S.%fZ", utc=True)
to_datetime(modified) ==
    CASE modified = "2023-01-28T00:00:00.000Z" -> 2
      [] modified = "2023-01-28T12:00:00.000Z" -> 3
      [] modified = "2023-01-29T00:00:00.000Z" -> 4

\* pd.Timedelta(f"{n}day")
Timedelta(n) == 2 * n

\* a variant of the filter that keeps rows modified at the limit instant
last_modified_or_equal(df, modified_days_ago, timestamp_now) ==
    SelectSeq(df, LAMBDA r : to_datetime(r.modified)
                               >= timestamp_now - Timedelta(modified_days_ago))

\* s3._last_modified_from_inventory, given what Timestamp.now() returned
_last_modified_from_inventory(df, modified_days_ago, timestamp_now) ==
    SelectSeq(df, LAMBDA r : to_datetime(r.modified)
                               > timestamp_now - Timedelta(modified_days_ago))

\* groupby(...).size() given the group of each row: the first exception of the
\* callable ends it
size_by_group(groups) ==
    IF \E i \in 1..Len(groups) : ~groups[i].ok
    THEN groups[CHOOSE i \in 1..Len(groups) :
                    ~groups[i].ok /\ \A j \in 1..(i - 1) : groups[j].ok]
    ELSE Ok([g \in { groups[i].val : i \in 1..Len(groups) } |->
               Cardinality({ i \in 1..Len(groups) : groups[i].val = g })])

\* a count that gives every group present the count 1
groups_counted_once(df) ==
    IF \E i \in 1..Len(df) : ~extract_daily_group_from_inventory(df[i].file).ok
    THEN Raise("ValueError")
    ELSE Ok([g \in { extract_daily_group_from_inventory(df[i].file).val :
                     i \in 1..Len(df) } |-> 1])

\* s3._radar_day_counts_from_inventory: df.set_index("file").groupby(callable).size()
_radar_day_counts_from_inventory(df) ==
    size_by_group([i \in 1..Len(df) |-> extract_daily_group_from_inventory(df[i].file)])

\* what _handle_inventory returns, or the exception of the count
inventory_extracts(df_co, df_last) ==
    IF df_co.ok THEN Ok([df_coverage |-> df_co.val, df_last_n_days |-> df_last])
    ELSE df_co

\* _handle_inventory once the .h5 rows are selected
handle_h5(h5, modified_days_ago, timestamp_now) ==
    inventory_extracts(_radar_day_counts_from_inventory(h5),
                       _last_modified_from_inventory(h5, modified_days_ago, timestamp_now))

\* a filter that also drops the .h5 rows whose name is no ODIM name
_handle_inventory_skip_unnamed(df, modified_days_ago, timestamp_now) ==
    handle_h5(SelectSeq(df, LAMBDA r :
                  /\ split_dot_last(r.file[Len(r.file)]) = <<"h5">>
                  /\ extract_daily_group_from_inventory(r.file).ok),
              modified_days_ago, timestamp_now)

\* s3._handle_inventory: the suffix filter, then the two extracts
_handle_inventory(df, modified_days_ago, timestamp_now) ==
    handle_h5(SelectSeq(df, LAMBDA r : split_dot_last(r.file[Len(r.file)]) = <<"h5">>),
              modified_days_ago, timestamp_now)

\* pd.read_csv(..., chunksize=...) over one sub-listing
RECURSIVE read_csv(_)
read_csv(listing) ==
    IF Len(listing) <= ChunkSize THEN <<listing>>
    ELSE <<SubSeq(listing, 1, ChunkSize)>>
           \o read_csv(SubSeq(listing, ChunkSize + 1, Len(listing)))

\* the chunks of all sub-listings, in the order the two loops meet them
RECURSIVE chunks(_)
chunks(m) == IF m = <<>> THEN <<>> ELSE read_csv(Head(m)) \o chunks(Tail(m))

\* the sum over the collected Series of the counts of one group
RECURSIVE series_sum(_, _)
series_sum(series, g) ==
    IF series = <<>> THEN 0
    ELSE (IF g \in DOMAIN Head(series) THEN Head(series)[g] ELSE 0)
         + series_sum(Tail(series), g)

\* a Series of counts as the table with columns directory and file_count
as_table(counts) ==
    { [directory |-> g, file_count |-> counts[g]] : g \in DOMAIN counts }

----------------------------------------------------------------------------
(* The inventories handle_manifest is tried on *)

Key29a == << <<"baltrad">>, <<"hdf5">>, <<"bejab">>, <<"2023">>, <<"01">>, <<"29">>,
             <<"bejab", "_", "vp", "_", "2023", "01", "29", "T", "00", "00", ".", "h5">> >>
Key29b == << <<"baltrad">>, <<"hdf5">>, <<"bejab">>, <<"2023">>, <<"01">>, <<"29">>,
             <<"bejab", "_", "vp", "_", "2023", "01", "29", "T", "00", "30", ".", "h5">> >>
Key30 ==  << <<"baltrad">>, <<"hdf5">>, <<"bewid">>, <<"2023">>, <<"01">>, <<"30">>,
             <<"bewid", "_", "vp", "_", "2023", "01", "30", "T", "00", "00", ".", "h5">> >>
KeyTxt == << <<"baltrad">>, <<"hdf5">>, <<"readme", ".", "txt">> >>
KeyNotes == << <<"baltrad">>, <<"hdf5">>, <<"notes", ".", "h5">> >>
\* an object whose name is h5, without a dot
KeyBare == << <<"baltrad">>, <<"hdf5">>, <<"h5">> >>

InventoryRow(file, modified) ==
    [repo |-> "aloft", file |-> file, size |-> 1, modified |-> modified]

\* the rows of the inventory, in the order of their keys
InventoryRows ==
    << InventoryRow(Key29a, "2023-01-28T00:00:00.000Z"),
       InventoryRow(Key29b, "2023-01-29T00:00:00.000Z"),
       InventoryRow(Key30, "2023-01-28T12:00:00.000Z"),
       InventoryRow(KeyBare, "2023-01-29T00:00:00.000Z"),
       InventoryRow(KeyNotes, "2023-01-29T00:00:00.000Z"),
       InventoryRow(KeyTxt, "2023-01-29T00:00:00.000Z") >>

\* an inventory lists every object once, in key order
Inventories ==
    UNION { { [i \in 1..k |-> InventoryRows[at[i]]] :
                at \in { f \in [1..k -> 1..Len(InventoryRows)] :
                            \A i \in 1..(k - 1) : f[i] < f[i + 1] } } :
            k \in 0..MaxRows }

\* the rows of an inventory spread over sub-listings that end after the cuts
RECURSIVE sub_listings(_, _)
sub_listings(rows, cuts) ==
    IF rows = <<>> THEN <<>>
    ELSE LET n == IF cuts = {} THEN Len(rows)
                  ELSE CHOOSE c \in cuts : \A d \in cuts : c <= d
         IN  <<SubSeq(rows, 1, n)>>
               \o sub_listings(SubSeq(rows, n + 1, Len(rows)),
                               { c - n : c \in cuts \ {n} })

Manifests ==
    UNION { { sub_listings(rows, cuts) : cuts \in SUBSET (1..(Len(rows) - 1)) } :
            rows \in Inventories }

----------------------------------------------------------------------------
(* SpecManifest: one run of handle_manifest *)

\* handle_manifest(manifest_url, modified_days_ago) is entered
handle_manifest_call(m, days_ago) ==
    /\ mpc = "idle"
    /\ manifest' = m
    /\ lookback' = days_ago
    /\ mpc' = "reading"
    /\ cursor' = 1
    /\ readings' = <<>>
    /\ df_coverage' = <<>>
    /\ df_last_n_days' = <<>>
    /\ UNCHANGED <<now, mresult, convVars, cliVars>>

\* time passes while the inventory is read
Tick ==
    /\ mpc = "reading"
    /\ now < MaxNow
    /\ now' = now + 1
    /\ UNCHANGED <<manifest, lookback, mpc, cursor, readings, df_coverage,
                   df_last_n_days, mresult, convVars, cliVars>>

\* the two appends of the loop body, or the exception that ends the run
append_extracts(out) ==
    IF out.ok
    THEN /\ df_last_n_days' = Append(df_last_n_days, out.val.df_last_n_days)
         /\ df_coverage' = Append(df_coverage, out.val.df_coverage)
         /\ cursor' = cursor + 1
         /\ UNCHANGED <<mpc, mresult>>
    ELSE /\ mresult' = out
         /\ mpc' = "done"
         /\ UNCHANGED <<df_last_n_days, df_coverage, cursor>>

\* one pass of  for chunk in reader:  _handle_inventory and the two appends
read_chunk ==
    /\ mpc = "reading"
    /\ cursor <= Len(chunks(manifest))
    /\ readings' = Append(readings, now)
    /\ append_extracts(_handle_inventory(chunks(manifest)[cursor], lookback, now))
    /\ UNCHANGED <<manifest, lookback, now, convVars, cliVars>>

\* a coverage table that keeps the counts of each chunk apart
coverage_table_per_chunk(series) ==
    { [directory |-> g, file_count |-> series[k][g]] :
        <<k, g>> \in { <<k, g>> \in (1..Len(series)) \X (UNION { DOMAIN series[j] :
                                                              j \in 1..Len(series) }) :
                         g \in DOMAIN series[k] } }

\* the coverage table: pd.concat, reset_index, groupby("index")[0].sum()
coverage_table(series) ==
    { [directory |-> g, file_count |-> series_sum(series, g)] :
        g \in UNION { DOMAIN series[k] : k \in 1..Len(series) } }

\* the two tables, or the exception of the last group-by
manifest_tables(df_cov, counts) ==
    IF ~counts.ok THEN counts
    ELSE Ok([df_cov |-> df_cov, df_days_to_create_vpts |-> as_table(counts.val)])

\* after the loops: pd.concat and the two group-bys
handle_manifest_return ==
    /\ mpc = "reading"
    /\ cursor > Len(chunks(manifest))
    /\ mresult' = IF df_coverage = <<>> THEN Raise("ValueError")
                  ELSE manifest_tables(coverage_table(df_coverage),
                           _radar_day_counts_from_inventory(concat(df_last_n_days)))
    /\ mpc' = "done"
    /\ UNCHANGED <<manifest, lookback, now, cursor, readings, df_coverage,
                   df_last_n_days, convVars, cliVars>>

NextManifest ==
    \/ \E m \in Manifests, days_ago \in 0..MaxLookback : handle_manifest_call(m, days_ago)
    \/ Tick
    \/ read_chunk
    \/ handle_manifest_return

SpecManifest == Init /\ [][NextManifest]_vars

----------------------------------------------------------------------------
(* Properties of SpecManifest *)

\* a key whose last item ends in .h5
HasH5Suffix(file) ==
    LET name == file[Len(file)]
    IN  Len(name) >= 2 /\ name[Len(name) - 1] = "." /\ name[Len(name)] = "h5"

\* a key whose file name reads ccrrr_vp_yyyymmddThhmm.h5
OdimName(file) ==
    LET name == file[Len(file)]
    IN  /\ Len(name) = 12
        /\ name[1] \in Letters5 /\ name[2] = "_" /\ name[3] = "vp" /\ name[4] = "_"
        /\ name[5] \in Digits4 /\ name[6] \in Digits2 /\ name[7] \in Digits2
        /\ name[8] = "T" /\ name[9] \in Digits2 /\ name[10] \in Digits2
        /\ name[11] = "." /\ name[12] = "h5"

\* such a file below a source and a file-type directory
OdimKey(file) == Len(file) > 2 /\ OdimName(file)

\* the rows of the manifest, sub-listing after sub-listing
ManifestRows == concat(manifest)

H5Count == Cardinality({ i \in 1..Len(ManifestRows) : HasH5Suffix(ManifestRows[i].file) })

RECURSIVE TableSum(_)
TableSum(table) ==
    IF table = {} THEN 0
    ELSE LET r == CHOOSE r \in table : TRUE
         IN  r.file_count + TableSum(table \ {r})

ManifestReturned == mpc = "done" /\ mresult.ok

\* the counts of the coverage table add up to the .h5 rows, and the rebuild
\* table holds coverage groups only, none with a larger count
CoverageSplit ==
    /\ TableSum(mresult.val.df_cov) = H5Count
    /\ \A d \in mresult.val.df_days_to_create_vpts :
          \E c \in mresult.val.df_cov :
              c.directory = d.directory /\ d.file_count <= c.file_count

NamedH5(file) ==
    LET name == file[Len(file)]
    IN  name[Len(name)] = "h5" /\ (Len(name) = 1 \/ name[Len(name) - 1] = ".")

\* the manifest holds a row, and each of its rows whose last path item is h5 or
\* ends in .h5 has an ODIM file name below a source and a file-type directory
GroupsDerivable ==
    /\ manifest # <<>>
    /\ \A i \in 1..Len(ManifestRows) :
          NamedH5(ManifestRows[i].file) => OdimKey(ManifestRows[i].file)

\* a manifest without rows, or with an .h5 row whose file name is no ODIM name
NoGroupDerivable ==
    \/ manifest = <<>>
    \/ \E i \in 1..Len(ManifestRows) :
          HasH5Suffix(ManifestRows[i].file) /\ ~OdimName(ManifestRows[i].file)

H5Rows(k) == SelectSeq(chunks(manifest)[k], LAMBDA r : HasH5Suffix(r.file))

\* row r of chunk k was modified strictly later than now minus days_ago days,
\* now being the clock when the chunk was filtered
Recent(r, k, days_ago) == to_datetime(r.modified) > readings[k] - 2 * days_ago

GroupOf(r) == extract_daily_group_from_inventory(r.file).val

\* the number of recent rows of a group
RecentCount(g, days_ago) ==
    Cardinality({ <<k, i>> \in (1..Len(readings)) \X (1..MaxRows) :
                    /\ i <= Len(H5Rows(k))
                    /\ GroupOf(H5Rows(k)[i]) = g
                    /\ Recent(H5Rows(k)[i], k, days_ago) })

AllGroups == { GroupOf(H5Rows(k)[i]) :
                 <<k, i>> \in { <<k, i>> \in (1..Len(readings)) \X (1..MaxRows) :
                                  i <= Len(H5Rows(k)) } }

RebuildOf(days_ago) ==
    { [directory |-> g, file_count |-> RecentCount(g, days_ago)] :
        g \in { h \in AllGroups : RecentCount(h, days_ago) > 0 } }

EveryRowRecent ==
    \A k \in 1..Len(readings) : \A i \in 1..Len(H5Rows(k)) : Recent(H5Rows(k)[i], k, lookback)

NoRowRecent ==
    \A k \in 1..Len(readings) : \A i \in 1..Len(H5Rows(k)) : ~Recent(H5Rows(k)[i], k, lookback)

\* the groups the code's filter lets through for another lookback, the clock
\* readings being the same
RECURSIVE filtered(_, _)
filtered(k, days_ago) ==
    IF k = 0 THEN <<>>
    ELSE filtered(k - 1, days_ago)
           \o _last_modified_from_inventory(H5Rows(k), days_ago, readings[k])

GroupsFiltered(days_ago) ==
    { GroupOf(filtered(Len(readings), days_ago)[i]) :
        i \in 1..Len(filtered(Len(readings), days_ago)) }

\* C5: the rebuild table counts exactly the rows modified strictly later than
\* now minus the lookback; when that holds for every row the rebuild table is
\* the coverage table, when it holds for no row the rebuild table is empty and
\* the coverage table complete, and a longer lookback loses no group.
C5_RecentRows ==
    ManifestReturned =>
        /\ mresult.val.df_days_to_create_vpts = RebuildOf(lookback)
        /\ EveryRowRecent => mresult.val.df_days_to_create_vpts = mresult.val.df_cov
        /\ NoRowRecent => /\ mresult.val.df_days_to_create_vpts = {}
                          /\ TableSum(mresult.val.df_cov) = H5Count
        /\ \A more \in lookback..(MaxLookback + 1) :
              /\ GroupsFiltered(lookback) \subseteq GroupsFiltered(more)
              /\ { d.directory : d \in mresult.val.df_days_to_create_vpts }
                   = GroupsFiltered(lookback)

\* C5 witness: a file modified exactly lookback days before now is left out of
\* the rebuild table while a file modified later is in it
C5_Witness ==
    /\ ManifestReturned
    /\ lookback > 0
    /\ \E k \in 1..Len(readings) : \E i \in 1..Len(H5Rows(k)) :
          /\ to_datetime(H5Rows(k)[i].modified) = readings[k] - 2 * lookback
          /\ \A d \in mresult.val.df_days_to_create_vpts :
                d.directory # GroupOf(H5Rows(k)[i])
    /\ mresult.val.df_days_to_create_vpts # {}

\* the rows of the manifest that end in .h5 and belong to group g
H5RowsOf(g) ==
    { i \in 1..Len(ManifestRows) :
        HasH5Suffix(ManifestRows[i].file) /\ GroupOf(ManifestRows[i]) = g }

\* a manifest with a row whose key does not end in .h5, and whose rows that do
\* all carry an ODIM file name below a source and a file-type directory
OtherRowsOnly ==
    /\ \E i \in 1..Len(ManifestRows) : ~HasH5Suffix(ManifestRows[i].file)
    /\ \A i \in 1..Len(ManifestRows) :
          HasH5Suffix(ManifestRows[i].file) => OdimKey(ManifestRows[i].file)

\* C17: rows whose key does not end in .h5 are dropped without an error and are
\* counted in neither table, whatever the rest of their path looks like: with
\* such rows next to well-named .h5 rows handle_manifest returns, every coverage
\* count is the number of .h5 rows of its group and no rebuild count is larger.
C17_OtherRowsDropped ==
    (mpc = "done" /\ OtherRowsOnly) =>
        /\ mresult.ok
        /\ \A c \in mresult.val.df_cov :
              c.file_count = Cardinality(H5RowsOf(c.directory))
        /\ \A d \in mresult.val.df_days_to_create_vpts :
              d.file_count <= Cardinality(H5RowsOf(d.directory))

\* a row with suffix .h5 whose file name does not match the ODIM pattern
UnnamedH5(r) == HasH5Suffix(r.file) /\ ~OdimName(r.file)

\* C29: an .h5 row whose file name does not match the ODIM pattern is not
\* skipped: a run on a manifest with such a row ends with ValueError at a
\* chunk that holds a row without a derivable group, and returns no table.
C29_UnnamedAborts ==
    (mpc = "done" /\ \E i \in 1..Len(ManifestRows) : UnnamedH5(ManifestRows[i])) =>
        /\ mresult = Raise("ValueError")
        /\ cursor <= Len(chunks(manifest))
        /\ \E i \in 1..Len(chunks(manifest)[cursor]) :
              LET r == chunks(manifest)[cursor][i]
              IN  NamedH5(r.file) /\ ~OdimName(r.file)

\* C29 witness: notes.h5 is in the second chunk, after a chunk of two files
\* with ODIM names that was counted; the run raised ValueError
C29_Witness ==
    /\ mpc = "done"
    /\ mresult = Raise("ValueError")
    /\ cursor = 2
    /\ Len(df_coverage) = 1
    /\ Len(chunks(manifest)[1]) = 2
    /\ UnnamedH5(chunks(manifest)[2][1])

\* a table with one row for each of the groups, and for no other group
OncePerGroup(table, groups) ==
    /\ { r.directory : r \in table } = groups
    /\ \A r, q \in table : r.directory = q.directory => r = q

\* C25: the tables handle_manifest returns do not depend on how the rows are
\* spread over sub-listings and chunks: every group of the manifest is in the
\* coverage table exactly once with the number of its .h5 rows in the whole
\* manifest, and every group with a recently modified row is in the rebuild
\* table exactly once with the number of such rows in the whole manifest.
C25_WholeManifestCounts ==
    ManifestReturned =>
        /\ OncePerGroup(mresult.val.df_cov, AllGroups)
        /\ \A c \in mresult.val.df_cov :
              c.file_count = Cardinality(H5RowsOf(c.directory))
        /\ OncePerGroup(mresult.val.df_days_to_create_vpts,
                        { g \in AllGroups : RecentCount(g, lookback) > 0 })
        /\ \A d \in mresult.val.df_days_to_create_vpts :
              d.file_count = RecentCount(d.directory, lookback)

\* C25 witness: the two files of one day are in different sub-listings, with a
\* file of another day in the chunk of the second; both tables count two files
\* for the day
C25_Witness ==
    /\ ManifestReturned
    /\ Len(manifest) = 2
    /\ Len(manifest[2]) = 2
    /\ manifest[1][1].file = Key29a /\ manifest[2][1].file = Key29b
    /\ \E c \in mresult.val.df_cov : \E d \in mresult.val.df_days_to_create_vpts :
          /\ c.directory = GroupOf(manifest[1][1]) /\ c.file_count = 2
          /\ d.directory = c.directory /\ d.file_count = 2
    /\ Cardinality(mresult.val.df_cov) = 2

----------------------------------------------------------------------------
(* s3.py: OdimFilePath as bin/vph5_to_vpts.py uses it *)

\* OdimFilePath(source, radar_code, data_type, year, month, day)
OdimFilePath(source, radar_code, data_type, year, month, day) ==
    [source |-> source, radar_code |-> radar_code, data_type |-> data_type,
     year |-> year, month |-> month, day |-> day, hour |-> "00", minute |-> "00",
     file_name |-> <<>>, file_type |-> <<>>]

\* OdimFilePath.from_s3fs_enlisting: the listing starts with the bucket
\* the path object of a file name and the source given with it: file_type keeps
\* its default ""
named_path(source, parsed) ==
    IF ~parsed.ok THEN parsed
    ELSE Ok([source |-> source, file_type |-> <<>>] @@ parsed.val)

\* OdimFilePath.from_file_name
from_file_name(items, source) == named_path(source, parse_file_name(items))

enlisted_path(items, parsed) ==
    IF ~parsed.ok THEN parsed
    ELSE Ok([source |-> items[2], file_type |-> items[2]] @@ parsed.val)

from_s3fs_enlisting(items) == enlisted_path(items, parse_file_name(items))

\* OdimFilePath.s3_path_setup: {source}/{file_output}/{radar_code}/{year}
s3_path_setup(path, file_output) ==
    <<path.source, <<file_output>>, <<path.radar_code>>, <<path.year>>>>

\* OdimFilePath.s3_folder_path_h5
s3_folder_path_h5(path) ==
    s3_path_setup(path, "hdf5") \o <<<<path.month>>, <<path.day>>>>

\* OdimFilePath.daily_vpts_file_name: {radar_code}_vpts_{year}{month}{day}.csv
daily_vpts_file_name(path) ==
    <<path.radar_code, "_", "vpts", "_", path.year, path.month, path.day, ".", "csv">>

\* OdimFilePath.s3_file_path_daily_vpts
s3_file_path_daily_vpts(path) ==
    s3_path_setup(path, "daily") \o <<daily_vpts_file_name(path)>>

\* OdimFilePath.s3_file_path_monthly_vpts
s3_file_path_monthly_vpts(path) ==
    s3_path_setup(path, "monthly")
      \o << <<path.radar_code, "_", "vpts", "_", path.year, path.month,
              ".", "csv", ".", "gz">> >>

----------------------------------------------------------------------------
(* SpecPaths: the constructors of OdimFilePath called on the keys of hdf5    *)
(* objects                                                                   *)

\* the bucket of bin/vph5_to_vpts.py: DESTINATION_BUCKET, "aloft" by default
S3_BUCKET == <<"aloft">>

PathSources == { <<"baltrad">>, <<"lab202301">> }

\* file names that follow the ODIM naming, and two that do not
PathNames ==
    { <<r, "_", t, "_", "2023", m, d, "T", "00", "00", ".", "h5">> :
        r \in Letters5, t \in LowerWords, m \in {"01", "02"}, d \in {"29", "30"} }
    \cup { <<"notes", ".", "h5">>, <<"readme", ".", "txt">> }

\* the file-type folders of a source
PathTypes == { <<"hdf5">>, <<"vp">> }

\* where an object is stored: below the folders of its radar in lower case and
\* its day, below a radar folder spelled as in the name, or right below the
\* file-type folder
PathLayouts == {"lower", "named", "flat"}

\* the key of a file name below source/file_type in a layout
KeyOf(source, file_type, layout, name) ==
    IF Len(name) = 12 /\ layout # "flat"
    THEN <<source, file_type, <<IF layout = "lower" THEN lower(name[1]) ELSE name[1]>>,
           <<name[5]>>, <<name[6]>>, <<name[7]>>, name>>
    ELSE <<source, file_type, name>>

PathKeys ==
    { KeyOf(source, file_type, layout, name) :
        source \in PathSources, file_type \in PathTypes,
        layout \in PathLayouts, name \in PathNames }

\* the group of one file, from its name and source and from its inventory key
group_keys_call(key) ==
    /\ call' = [fn |-> "group_keys", state |-> "returned", file_path |-> key]
    /\ result' = Ok([from_file_name |->
                        daily_group(from_file_name(<<key[Len(key)]>>, key[1])),
                     from_inventory |-> extract_daily_group_from_inventory(key)])
    /\ UNCHANGED <<tasks, completed, manVars, cliVars>>

\* OdimFilePath.from_s3fs_enlisting on a key as inbo_s3.ls returns it
from_s3fs_enlisting_call(key) ==
    /\ call' = [fn |-> "from_s3fs_enlisting", state |-> "returned", file_path |-> key]
    /\ result' = from_s3fs_enlisting(<<S3_BUCKET>> \o key)
    /\ UNCHANGED <<tasks, completed, manVars, cliVars>>

NextPaths ==
    \/ \E key \in PathKeys : group_keys_call(key)
    \/ \E key \in PathKeys : from_s3fs_enlisting_call(key)

SpecPaths == Init /\ [][NextPaths]_vars

\* C13: for every valid raw-file path, the group key (source, file type,
\* radar code, year, month, day) derived from the file name and its source
\* equals the group key derived from the inventory key of the same file.
C13_SameGroupKey ==
    (call.fn = "group_keys" /\ result.val.from_inventory.ok) =>
        result.val.from_file_name = result.val.from_inventory

----------------------------------------------------------------------------
(* vpts.py: vp() and vpts() as one step, for the callers of the package *)

\* vp_odim.to_vp(_get_vpts_version(vpts_csv_version))
vp_frame(prof, mapper) ==
    IF ~prof.ok THEN prof
    ELSE IF ~mapper.ok THEN mapper
    ELSE to_vp(prof.val, mapper.val)

\* vp(file_path) with the default version "v1" and the source_file vpts() passes
vp_outcome(c) ==
    IF ~c.readable THEN Raise("OSError")
    ELSE vp_frame(from_odim(c, _convert_to_source(c)), _get_vpts_version("v1"))

\* vpts() once the pool is asked for: the pool's ValueError, the exception of a
\* file that failed, or the concatenated and sorted table
pool_outcomes(data, n) ==
    IF n - 1 < 1 THEN {Raise("ValueError")}
    ELSE IF \E i \in 1..Len(data) : ~data[i].ok
    THEN { data[i] : i \in { j \in 1..Len(data) : ~data[j].ok } }
    ELSE IF data = <<>> THEN {Raise("ValueError")}
    ELSE {Ok(sort_values(concat([i \in 1..Len(data) |-> data[i].val])))}

\* the outcomes vpts(file_paths) can have on a machine with n execution units
vpts_outcomes(files, n) ==
    pool_outcomes([i \in 1..Len(files) |-> vp_outcome(files[i])], n)

----------------------------------------------------------------------------
(* bin/vph5_to_vpts.py: the bucket the command works on *)

MaxRemoved == 1      \* objects the origin removes while the command runs

KeyBe30 == << <<"baltrad">>, <<"hdf5">>, <<"bejab">>, <<"2023">>, <<"01">>, <<"30">>,
              <<"bejab", "_", "vp", "_", "2023", "01", "30", "T", "00", "00", ".", "h5">> >>
\* objects of a source whose name holds six digits
KeyLab30 == << <<"lab202301">>, <<"hdf5">>, <<"bejab">>, <<"2023">>, <<"01">>, <<"30">>,
               <<"bejab", "_", "vp", "_", "2023", "01", "30", "T", "00", "00", ".", "h5">> >>
KeyLab0201 == << <<"lab202301">>, <<"hdf5">>, <<"bejab">>, <<"2023">>, <<"02">>, <<"01">>,
                 <<"bejab", "_", "vp", "_", "2023", "02", "01", "T", "00", "00", ".", "h5">> >>
\* a second object of that day, which holds no vertical profile
KeyLab0201b == << <<"lab202301">>, <<"hdf5">>, <<"bejab">>, <<"2023">>, <<"02">>, <<"01">>,
                  <<"bejab", "_", "vp", "_", "2023", "02", "01", "T", "00", "30", ".", "h5">> >>

\* the hdf5 objects, in the order of their keys, and what each one holds
BucketKeys == <<Key29a, Key29b, KeyBe30, KeyLab30, KeyLab0201, KeyLab0201b>>

Holds(key) ==
    CASE key = Key29a -> BaseContainer
      [] key = Key29b ->
           Container(NameB, AllKeys, "VP", "bejab", "233500", Num(12), <<1000, 200>>, PlainData)
      [] key = KeyBe30 -> BaseContainer
      [] key = KeyLab30 -> BaseContainer
      [] key = KeyLab0201 ->
           Container(NameB, AllKeys, "VP", "bejab", "233000", Num(0), <<200, 1000>>, PlainData)
      [] key = KeyLab0201b ->
           [BaseContainer EXCEPT !.what.object = "PVOL", !.keys = AllKeys \ {"how"}]

\* the day groups handle_manifest can flag, in the order of the rebuild table
DayGroups ==
    << <<<<"baltrad">>, <<"hdf5">>, "bejab", "2023", "01", "29">>,
       <<<<"baltrad">>, <<"hdf5">>, "bejab", "2023", "01", "30">>,
       <<<<"lab202301">>, <<"hdf5">>, "bejab", "2023", "01", "30">>,
       <<<<"lab202301">>, <<"hdf5">>, "bejab", "2023", "02", "01">> >>

\* the members of a sequence at the positions in keep, order preserved
RECURSIVE pick(_, _)
pick(seq, keep) ==
    IF seq = <<>> THEN <<>>
    ELSE (IF 1 \in keep THEN <<Head(seq)>> ELSE <<>>)
         \o pick(Tail(seq), { i - 1 : i \in keep \ {1} })

\* s3fs ls: the objects right below a folder, bucket in front, in key order
ls(keys, ordered, folder) ==
    LET below == pick(ordered, { i \in 1..Len(ordered) :
                                   /\ ordered[i] \in keys
                                   /\ Len(ordered[i]) = Len(folder) + 1
                                   /\ SubSeq(ordered[i], 1, Len(folder)) = folder })
    IN  [i \in 1..Len(below) |-> <<S3_BUCKET>> \o below[i]]

\* a daily vpts file written by an earlier run
OldDaily ==
    s3_file_path_daily_vpts(OdimFilePath(<<"baltrad">>, "bejab", "vp", "2023", "01", "30"))

\* the daily vpts paths, in the order of their names
DailyPaths ==
    [i \in 1..Len(DayGroups) |->
       s3_file_path_daily_vpts(OdimFilePath(DayGroups[i][1], DayGroups[i][3], "vp",
                                            DayGroups[i][4], DayGroups[i][5],
                                            DayGroups[i][6]))]

----------------------------------------------------------------------------
(* SpecCli: one run of cli() of bin/vph5_to_vpts.py.  What handle_manifest   *)
(* returned is an input of the run; j of both loops is dayidx.               *)

\* the path object cli() builds for a day or month group
group_path(g, day) == OdimFilePath(g[1], g[3], "vp", g[4], g[5], day)

\* df["directory"].str.join("/") of a group
directory_str(g) == join(<<g[1], g[2]>> \o [i \in 1..(Len(g) - 2) |-> <<g[i + 2]>>])

\* the characters of the words that daily vpts paths are made of
chars(w) ==
    CASE w = "aloft" -> <<"a", "l", "o", "f", "t">>
      [] w = "baltrad" -> <<"b", "a", "l", "t", "r", "a", "d">>
      [] w = "lab202301" -> <<"l", "a", "b", "2", "0", "2", "3", "0", "1">>
      [] w = "daily" -> <<"d", "a", "i", "l", "y">>
      [] w = "bejab" -> <<"b", "e", "j", "a", "b">>
      [] w = "vpts" -> <<"v", "p", "t", "s">>
      [] w = "csv" -> <<"c", "s", "v">>
      [] w = "2023" -> <<"2", "0", "2", "3">>
      [] w = "01" -> <<"0", "1">>
      [] w = "02" -> <<"0", "2">>
      [] w = "29" -> <<"2", "9">>
      [] w = "30" -> <<"3", "0">>
      [] w \in {"/", "_", "."} -> <<w>>

\* the characters of a path, its items joined by "/"
RECURSIVE path_chars(_)
path_chars(path) ==
    IF path = <<>> THEN <<>>
    ELSE LET item == Head(path)
             word == [i \in 1..Len(item) |-> chars(item[i])]
             RECURSIVE flat(_)
             flat(ws) == IF ws = <<>> THEN <<>> ELSE Head(ws) \o flat(Tail(ws))
         IN  flat(word) \o (IF Tail(path) = <<>> THEN <<>>
                            ELSE <<"/">> \o path_chars(Tail(path)))

\* str.find(sub) >= 0: sub occurs somewhere in the text
find(text, sub) ==
    \E i \in 1..(Len(text) - Len(sub) + 1) : SubSeq(text, i, i + Len(sub) - 1) = sub

\* daily_vpts.find(f"{odim_path.year}{odim_path.month}") >= 0
find_year_month(path, year, month) ==
    find(path_chars(path), chars(year) \o chars(month))

\* directory.apply(lambda x: x[:-1]) and groupby("directory").size(): the
\* months of the day groups, each once, in order
RECURSIVE months_of(_)
months_of(groups) ==
    IF groups = <<>> THEN <<>>
    ELSE LET rest == months_of(SubSeq(groups, 1, Len(groups) - 1))
             m == SubSeq(groups[Len(groups)], 1, 5)
         IN  IF \E i \in 1..Len(rest) : rest[i] = m THEN rest ELSE Append(rest, m)

\* cli() up to the start of the day loop: the tables of handle_manifest, the
\* coverage file
cli_call(objects, flagged, n, old) ==
    /\ cpc = "idle"
    /\ \A i \in flagged : \E k \in objects :
          extract_daily_group_from_inventory(BucketKeys[k]).val = DayGroups[i]
    /\ store' = { BucketKeys[k] : k \in objects }
    /\ coverage' =
         { [directory |-> directory_str(DayGroups[i]),
            file_count |-> Cardinality({ k \in objects :
                 extract_daily_group_from_inventory(BucketKeys[k]).val = DayGroups[i] })] :
             i \in { j \in 1..Len(DayGroups) : \E k \in objects :
                 extract_daily_group_from_inventory(BucketKeys[k]).val = DayGroups[j] } }
    /\ days' = pick(DayGroups, flagged)
    /\ cpus' = n
    /\ daily' = IF old THEN OldDaily :> vp_outcome(BaseContainer).val ELSE <<>>
    /\ monthly' = <<>>
    /\ dayidx' = 1
    /\ listed' = <<>>
    /\ fetched' = <<>>
    /\ months' = months_of(pick(DayGroups, flagged))
    /\ cpc' = IF flagged = {} THEN "months" ELSE "ls"
    /\ cexc' = "none"
    /\ removed' = {}
    /\ earlier' = <<>>
    /\ UNCHANGED <<convVars, manVars>>

\* cli() is run again on the same manifest and an unchanged bucket after a run
\* that ended without an exception
cli_rerun ==
    /\ cpc = "done"
    /\ cexc = "none"
    /\ removed = {}
    /\ earlier = <<>>
    /\ earlier' = <<[daily |-> daily, monthly |-> monthly]>>
    /\ dayidx' = 1
    /\ listed' = <<>>
    /\ fetched' = <<>>
    /\ cpc' = IF days = <<>> THEN "months" ELSE "ls"
    /\ UNCHANGED <<store, daily, monthly, days, months, cexc, coverage, cpus,
                   removed, convVars, manVars>>

\* the origin removes an object while the day loop of a first run is under way
origin_removes(key) ==
    /\ cpc \in {"ls", "download"}
    /\ earlier = <<>>
    /\ key \in store
    /\ Cardinality(removed) < MaxRemoved
    /\ store' = store \ {key}
    /\ removed' = removed \cup {key}
    /\ UNCHANGED <<daily, monthly, cpc, days, dayidx, listed, fetched, months, cexc,
                   coverage, cpus, earlier, convVars, manVars>>

\* day loop: inbo_s3.ls of the folder of the day
cli_ls ==
    /\ cpc = "ls"
    /\ LET files == ls(store, BucketKeys,
                       s3_folder_path_h5(group_path(days[dayidx], days[dayidx][6])))
       IN  IF files = <<>>
           THEN /\ cexc' = "FileNotFoundError"
                /\ cpc' = "done"
                /\ UNCHANGED <<listed, fetched>>
           ELSE /\ listed' = files
                /\ fetched' = <<>>
                /\ cpc' = "download"
                /\ UNCHANGED cexc
    /\ UNCHANGED <<store, daily, monthly, days, dayidx, months, coverage, cpus,
                   removed, earlier, convVars, manVars>>

\* s3_client.download_file of the key built from the parsed path, and the append
download_key(h5_path, key) ==
    IF key \notin store
    THEN cexc' = "ClientError" /\ cpc' = "done" /\ UNCHANGED fetched
    ELSE /\ fetched' = Append(fetched, [Holds(key) EXCEPT !.file_name = h5_path.file_name])
         /\ UNCHANGED <<cexc, cpc>>

\* the loop body once the listed key is parsed
download_file(h5_path) ==
    IF ~h5_path.ok
    THEN cexc' = h5_path.exc /\ cpc' = "done" /\ UNCHANGED fetched
    ELSE download_key(h5_path.val,
                      s3_folder_path_h5(h5_path.val) \o <<h5_path.val.file_name>>)

\* day loop: one pass of  for i, file_key in enumerate(odim5_files)
cli_download ==
    /\ cpc = "download"
    /\ Len(fetched) < Len(listed)
    /\ download_file(from_s3fs_enlisting(listed[Len(fetched) + 1]))
    /\ UNCHANGED <<store, daily, monthly, days, dayidx, listed, months, coverage,
                   cpus, removed, earlier, convVars, manVars>>

\* a put that leaves an object that is already there as it is
put_if_absent(path, content, objects) == objects @@ (path :> content)

\* inbo_s3.put / to_csv to an s3 path: the object at the path is replaced
put(path, content, objects) == (path :> content) @@ objects

\* a day loop that hands over to the month loop after its first day
cli_vpts_put_rollup_early ==
    /\ cpc = "download"
    /\ Len(fetched) = Len(listed)
    /\ \E out \in vpts_outcomes(fetched, cpus) :
          IF out.ok
          THEN /\ daily' = put(s3_file_path_daily_vpts(group_path(days[dayidx],
                                                                  days[dayidx][6])),
                               out.val, daily)
               /\ dayidx' = 1
               /\ cpc' = "months"
               /\ UNCHANGED cexc
          ELSE /\ cexc' = out.exc
               /\ cpc' = "done"
               /\ UNCHANGED <<daily, dayidx>>
    /\ UNCHANGED <<store, monthly, days, listed, fetched, months, coverage, cpus,
                   removed, earlier, convVars, manVars>>

\* day loop: vpts() on the downloaded files, vpts_to_csv, inbo_s3.put
cli_vpts_put ==
    /\ cpc = "download"
    /\ Len(fetched) = Len(listed)
    /\ \E out \in vpts_outcomes(fetched, cpus) :
          IF out.ok
          THEN /\ daily' = put(s3_file_path_daily_vpts(group_path(days[dayidx],
                                                                  days[dayidx][6])),
                               out.val, daily)
               /\ dayidx' = IF dayidx < Len(days) THEN dayidx + 1 ELSE 1
               /\ cpc' = IF dayidx < Len(days) THEN "ls" ELSE "months"
               /\ UNCHANGED cexc
          ELSE /\ cexc' = out.exc
               /\ cpc' = "done"
               /\ UNCHANGED <<daily, dayidx>>
    /\ UNCHANGED <<store, monthly, days, listed, fetched, months, coverage, cpus,
                   removed, earlier, convVars, manVars>>

\* month loop: list the daily files of the year, keep those of the month, write
\* their concatenation
cli_month ==
    /\ cpc = "months"
    /\ dayidx <= Len(months)
    /\ LET odim_path == group_path(months[dayidx], "01")
           file_list == ls(DOMAIN daily, DailyPaths, s3_path_setup(odim_path, "daily"))
           files_to_concat ==
               SelectSeq(file_list, LAMBDA f : find_year_month(f, odim_path.year,
                                                               odim_path.month))
       IN  IF file_list = <<>>
           THEN cexc' = "FileNotFoundError" /\ cpc' = "done" /\ UNCHANGED <<monthly, dayidx>>
           ELSE IF files_to_concat = <<>>
           THEN cexc' = "ValueError" /\ cpc' = "done" /\ UNCHANGED <<monthly, dayidx>>
           ELSE /\ monthly' = put(s3_file_path_monthly_vpts(odim_path),
                                   concat([i \in 1..Len(files_to_concat) |->
                                             daily[Tail(files_to_concat[i])]]),
                                   monthly)
                /\ dayidx' = dayidx + 1
                /\ UNCHANGED <<cexc, cpc>>
    /\ UNCHANGED <<store, daily, days, listed, fetched, months, coverage, cpus,
                   removed, earlier, convVars, manVars>>

\* cli() returns after the month loop
cli_return ==
    /\ cpc = "months"
    /\ dayidx > Len(months)
    /\ cpc' = "done"
    /\ UNCHANGED <<store, daily, monthly, days, dayidx, listed, fetched, months, cexc,
                   coverage, cpus, removed, earlier, convVars, manVars>>

NextCli ==
    \/ \E objects \in SUBSET (1..Len(BucketKeys)), flagged \in SUBSET (1..Len(DayGroups)),
          n \in {1, MaxCpu}, old \in BOOLEAN : cli_call(objects, flagged, n, old)
    \/ \E key \in store : origin_removes(key)
    \/ cli_ls
    \/ cli_download
    \/ cli_vpts_put
    \/ cli_month
    \/ cli_return
    \/ cli_rerun

SpecCli == Init /\ [][NextCli]_vars

----------------------------------------------------------------------------
(* Properties of SpecCli *)

\* C10: a run in which a listed member file is gone at fetch time skips that
\* file only: the daily output of its group and of every other flagged group
\* is written, every month of a flagged group is rolled up, and the run ends
\* without an exception.
C10_VanishedSkipped ==
    (cpc = "done" /\ removed # {} /\ cpus > 1
       /\ \A i \in 1..Len(days) :
             ls(store, BucketKeys, s3_folder_path_h5(group_path(days[i], days[i][6]))) # <<>>)
      => /\ cexc = "none"
         /\ \A i \in 1..Len(days) :
               s3_file_path_daily_vpts(group_path(days[i], days[i][6])) \in DOMAIN daily
         /\ \A i \in 1..Len(months) :
               s3_file_path_monthly_vpts(group_path(months[i], "01")) \in DOMAIN monthly

\* the objects in the folder of a day group, as the bucket holds them now
MembersOf(g) == ls(store, BucketKeys, s3_folder_path_h5(group_path(g, g[6])))

\* the rows vp() gives for a member once it is downloaded under its own name
MemberRows(key) ==
    vp_outcome([Holds(Tail(key)) EXCEPT !.file_name = key[Len(key)]]).val

RECURSIVE MemberCount(_, _, _)
MemberCount(r, members, i) ==
    IF i = 0 THEN 0
    ELSE Count(r, MemberRows(members[i])) + MemberCount(r, members, i - 1)

RECURSIVE MemberLevels(_, _)
MemberLevels(members, i) ==
    IF i = 0 THEN 0 ELSE Len(MemberRows(members[i])) + MemberLevels(members, i - 1)

\* rows holds the rows of all members, each as often as the members give it,
\* in the order of the sort key
SortedRowsOf(rows, members) ==
    /\ Len(rows) = MemberLevels(members, Len(members))
    /\ \A i \in 1..Len(members) : \A k \in 1..Len(MemberRows(members[i])) :
          Count(MemberRows(members[i])[k], rows)
              = MemberCount(MemberRows(members[i])[k], members, Len(members))
    /\ \A i \in 1..Len(rows) : \A j \in i..Len(rows) : KeyLeq(rows[i], rows[j])

DailyPathOf(g) == s3_file_path_daily_vpts(group_path(g, g[6]))

\* a run that ended without an exception while the origin removed nothing
QuietRun == cpc = "done" /\ cexc = "none" /\ removed = {}

\* C11: after a run the object at the daily path of every flagged day group is
\* the sorted rows of all member files in the group's folder, whatever was
\* stored there before; a second run on the same manifest and an unchanged
\* bucket leaves every daily and monthly object as the first run wrote it.
C11_DailyReplaced ==
    QuietRun =>
        /\ \A i \in 1..Len(days) :
              /\ DailyPathOf(days[i]) \in DOMAIN daily
              /\ SortedRowsOf(daily[DailyPathOf(days[i])], MembersOf(days[i]))
        /\ earlier # <<>> =>
              /\ daily = earlier[1].daily
              /\ monthly = earlier[1].monthly

\* C11 witness: the second of two quiet runs has ended; a flagged day group
\* has two member files and the month of another flagged group was rolled up
C11_Witness ==
    /\ QuietRun
    /\ earlier # <<>>
    /\ Len(days) >= 2
    /\ \E i \in 1..Len(days) : Len(MembersOf(days[i])) = 2
    /\ OldDaily \in DOMAIN daily
    /\ Len(daily[OldDaily]) = 2 /\ daily[OldDaily] # vp_outcome(BaseContainer).val
    /\ DOMAIN monthly # {}

\* the daily objects of a month group that the bucket holds, in path order
DailiesOf(m) ==
    SelectSeq(DailyPaths, LAMBDA path :
        /\ path \in DOMAIN daily
        /\ \E k \in 1..Len(DayGroups) :
              DailyPathOf(DayGroups[k]) = path /\ SubSeq(DayGroups[k], 1, 5) = m)

MonthlyPathOf(m) == s3_file_path_monthly_vpts(group_path(m, "01"))

\* C12: after a run that ended without an exception, the monthly object of
\* every flagged (source, radar, year, month) is the concatenation, in path
\* order and row for row, of exactly the daily objects of that source, radar,
\* year and month that the bucket holds, rebuilt in this run or not, and of no
\* daily object of another month.
C12_MonthlyExact ==
    (cpc = "done" /\ cexc = "none") =>
        \A i \in 1..Len(months) :
            /\ MonthlyPathOf(months[i]) \in DOMAIN monthly
            /\ monthly[MonthlyPathOf(months[i])]
                 = concat([k \in 1..Len(DailiesOf(months[i])) |->
                             daily[DailiesOf(months[i])[k]]])

\* C24: two distinct day-group keys never map to the same daily output path,
\* and two distinct month-group keys never map to the same monthly output path:
\* the group of a key shares its paths with the group of no other key, unless
\* the groups are the same.
C24_DisjointOutputs ==
    (call.fn = "group_keys" /\ result.val.from_inventory.ok) =>
        \A k \in PathKeys :
            LET g == result.val.from_inventory.val
                h == extract_daily_group_from_inventory(k)
            IN  h.ok =>
                  /\ h.val # g => DailyPathOf(h.val) # DailyPathOf(g)
                  /\ SubSeq(h.val, 1, 5) # SubSeq(g, 1, 5) =>
                        MonthlyPathOf(SubSeq(h.val, 1, 5)) # MonthlyPathOf(SubSeq(g, 1, 5))

\* C28: the folder cli() lists for the day group of an inventory file,
\* {source}/hdf5/{radar}/{year}/{month}/{day} with the values parsed from the
\* file name, is the folder that holds that file, whatever the storage path of
\* the file looks like.
C28_FolderHoldsFile ==
    (call.fn = "group_keys" /\ result.val.from_inventory.ok) =>
        LET g == result.val.from_inventory.val
        IN  s3_folder_path_h5(group_path(g, g[6]))
              = SubSeq(call.file_path, 1, Len(call.file_path) - 1)

\* C21: a month is rolled up only after every day group flagged in the run has
\* finished: whenever a monthly object is written the day loop is over, the
\* daily object of every flagged day group is in place, and the step that
\* writes the monthly object changes no daily object.
C21_DaysBeforeMonths ==
    [][monthly' # monthly =>
          /\ cpc = "months"
          /\ listed = <<>> \/ Len(fetched) = Len(listed)
          /\ \A i \in 1..Len(days) : DailyPathOf(days[i]) \in DOMAIN daily
          /\ daily' = daily]_vars

\* C22: every month with a flagged day group is rolled up in the run, also
\* when the conversion of a day group failed, and a failed day group does not
\* end the run with an exception: a run on a machine with several execution
\* units and a bucket the origin leaves alone ends without an exception and
\* with the monthly object of every flagged month written.
C22_MonthsRolledUp ==
    (cpc = "done" /\ removed = {} /\ cpus > 1) =>
        /\ cexc = "none"
        /\ \A i \in 1..Len(months) : MonthlyPathOf(months[i]) \in DOMAIN monthly

\* C21 witness: the months of three flagged day groups were rolled up in a
\* first run, with no daily object left by an earlier run
C21_Witness ==
    /\ cpc = "done"
    /\ cexc = "none"
    /\ earlier = <<>>
    /\ Len(days) >= 3
    /\ Len(months) >= 2
    /\ \A i \in 1..Len(months) : MonthlyPathOf(months[i]) \in DOMAIN monthly
    /\ Cardinality(DOMAIN daily) = Len(days)

====
